---- MODULE Spec2Model ----
(***************************************************************************)
(* Verification model of the Warehouse-Schema-Generator core:              *)
(*   - the evaluation engine (utils/evaluation.py),                         *)
(*   - the warehouse synthesizer (utils/schema_generation.py),              *)
(*   - the domain gap analyzer (utils/enhancements.py),                     *)
(*   - the DDL parser (utils/schema_parsing.py).                            *)
(* Python str values are TLA+ strings (sequences of characters); Python     *)
(* dicts are sequences of entries in insertion order with pairwise          *)
(* distinct keys.  Python floats are exact rationals                        *)
(* <<numerator, denominator>>: sums, products and quotients are exact, and  *)
(* round(x, 2) rounds the exact value, halves to the even neighbour.  A     *)
(* binary float can fall on either side of a decimal half, so a reported    *)
(* score whose exact value ends in a half cent may differ from the          *)
(* program's by 0.01.                                                       *)
(***************************************************************************)
EXTENDS Integers, Sequences, FiniteSets, TLC

(***************************************************************************)
(* Python str primitives                                                   *)
(***************************************************************************)
LowerChars == "abcdefghijklmnopqrstuvwxyz"
UpperChars == "ABCDEFGHIJKLMNOPQRSTUVWXYZ"
DigitChars == "0123456789"

CharAt(s, i) == SubSeq(s, i, i)
CharSet(s) == {CharAt(s, i) : i \in 1..Len(s)}

\* the character map that sends the k-th character of from to the k-th of to
CharMap(from, to) ==
    [c \in CharSet(from) |-> CharAt(to, CHOOSE i \in 1..Len(from) : CharAt(from, i) = c)]
LowerMap == CharMap(UpperChars, LowerChars)
UpperMap == CharMap(LowerChars, UpperChars)
MapChar(map, c) == IF c \in DOMAIN map THEN map[c] ELSE c

\* str.lower() and str.upper()
RECURSIVE lower(_)
lower(s) ==
    IF Len(s) <= 1 THEN MapChar(LowerMap, s)
    ELSE lower(SubSeq(s, 1, Len(s) \div 2)) \o lower(SubSeq(s, Len(s) \div 2 + 1, Len(s)))

RECURSIVE upper(_)
upper(s) ==
    IF Len(s) <= 1 THEN MapChar(UpperMap, s)
    ELSE upper(SubSeq(s, 1, Len(s) \div 2)) \o upper(SubSeq(s, Len(s) \div 2 + 1, Len(s)))

\* s.startswith(p), s.endswith(p), p in s
startswith(s, p) == Len(p) <= Len(s) /\ SubSeq(s, 1, Len(p)) = p
endswith(s, p) == Len(p) <= Len(s) /\ SubSeq(s, Len(s) - Len(p) + 1, Len(s)) = p
contains(s, p) == \E i \in 1..(Len(s) - Len(p) + 1) : SubSeq(s, i, i + Len(p) - 1) = p

\* the least element of a non-empty set of integers
Min(S) == CHOOSE x \in S : \A y \in S : x <= y

\* s.find(p): 1-based index of the first occurrence, 0 when absent
find(s, p) ==
    IF contains(s, p)
    THEN Min({i \in 1..(Len(s) - Len(p) + 1) : SubSeq(s, i, i + Len(p) - 1) = p})
    ELSE 0

\* any(p in s for p in patterns), s.startswith(tuple), s.endswith(tuple)
containsAny(s, patterns) == \E k \in 1..Len(patterns) : contains(s, patterns[k])
startswithAny(s, prefixes) == \E k \in 1..Len(prefixes) : startswith(s, prefixes[k])
endswithAny(s, suffixes) == \E k \in 1..Len(suffixes) : endswith(s, suffixes[k])

IsSpace(c) == c = " " \/ c = "\n" \/ c = "\t"
WordChars == CharSet(LowerChars) \cup CharSet(UpperChars) \cup CharSet(DigitChars) \cup {"_"}
IsWordChar(c) == c \in WordChars

RECURSIVE lstrip(_)
lstrip(s) == IF s # "" /\ IsSpace(Head(s)) THEN lstrip(Tail(s)) ELSE s

RECURSIVE rstrip(_)
rstrip(s) == IF s # "" /\ IsSpace(CharAt(s, Len(s))) THEN rstrip(SubSeq(s, 1, Len(s) - 1)) ELSE s

strip(s) == rstrip(lstrip(s))

(***************************************************************************)
(* Python float arithmetic, as exact rationals <<n, d>> with d > 0          *)
(***************************************************************************)
Abs(n) == IF n < 0 THEN 0 - n ELSE n

RECURSIVE GCD(_, _)
GCD(a, b) == IF b = 0 THEN a ELSE GCD(b, a % b)

\* n/d in lowest terms, g the greatest common divisor of n and d
Reduced(n, d, g) == IF d < 0 THEN <<(0 - n) \div g, (0 - d) \div g>> ELSE <<n \div g, d \div g>>
Rat(n, d) == Reduced(n, d, GCD(Abs(n), Abs(d)))

RInt(n) == <<n, 1>>
\* a + b over the least common denominator, g the gcd of the denominators
Added(a, b, g) == Rat(a[1] * (b[2] \div g) + b[1] * (a[2] \div g), (a[2] \div g) * b[2])
RAdd(a, b) == Added(a, b, GCD(a[2], b[2]))
RNeg(a) == <<0 - a[1], a[2]>>
RSub(a, b) == RAdd(a, RNeg(b))
\* a * b with the cross factors g1, g2 cancelled first
Multiplied(a, b, g1, g2) == Rat((a[1] \div g1) * (b[1] \div g2), (a[2] \div g2) * (b[2] \div g1))
RMul(a, b) == Multiplied(a, b, GCD(Abs(a[1]), b[2]), GCD(Abs(b[1]), a[2]))
RDiv(a, b) == RMul(a, IF b[1] < 0 THEN <<0 - b[2], 0 - b[1]>> ELSE <<b[2], b[1]>>)
RLe(a, b) == a[1] * b[2] <= b[1] * a[2]
RLt(a, b) == a[1] * b[2] < b[1] * a[2]
RGe(a, b) == RLe(b, a)
RGt(a, b) == RLt(b, a)
RMin(a, b) == IF RLe(a, b) THEN a ELSE b
RMax(a, b) == IF RGe(a, b) THEN a ELSE b

\* floor of a rational
RFloor(a) == IF a[1] >= 0 THEN a[1] \div a[2] ELSE 0 - ((0 - a[1] + a[2] - 1) \div a[2])

\* the multiple of 1/100 nearest to h/100, f the floor of h: exact halves
\* go to the even neighbour
Nearest(h, f) ==
    IF 2 * (h[1] - f * h[2]) < h[2] THEN Rat(f, 100)
    ELSE IF 2 * (h[1] - f * h[2]) > h[2] THEN Rat(f + 1, 100)
    ELSE IF f % 2 = 0 THEN Rat(f, 100) ELSE Rat(f + 1, 100)

\* round(x, 2)
Hundredths(h) == Nearest(h, RFloor(h))
round2(x) == Hundredths(RMul(x, RInt(100)))

(***************************************************************************)
(* Schema-shaped values.  A schema is a sequence of tables                  *)
(* [name, columns] (dict order, distinct names); a column is                *)
(* [name, type, constraints] with constraints a sequence of tokens.         *)
(***************************************************************************)
Col(n, t, c) == [name |-> n, type |-> t, constraints |-> c]
Table(n, cols) == [name |-> n, columns |-> cols]

RECURSIVE AllColumns(_)
AllColumns(schema) ==
    IF schema = <<>> THEN <<>> ELSE Head(schema).columns \o AllColumns(Tail(schema))

\* the constraint tokens of a sequence of columns, in order
RECURSIVE AllTokens(_)
AllTokens(cols) == IF cols = <<>> THEN <<>> ELSE Head(cols).constraints \o AllTokens(Tail(cols))

\* the number of tokens that contain a keyword, whatever their case
token_count(tokens, keyword) ==
    Cardinality({k \in DOMAIN tokens : contains(upper(tokens[k]), keyword)})

keys(schema) == [i \in 1..Len(schema) |-> schema[i].name]
Range(seq) == {seq[i] : i \in DOMAIN seq}

\* the sub-sequence of seq at the positions in idx, in order
RECURSIVE Pick(_, _, _)
Pick(seq, idx, i) ==
    IF i > Len(seq) THEN <<>>
    ELSE (IF i \in idx THEN <<seq[i]>> ELSE <<>>) \o Pick(seq, idx, i + 1)

RECURSIVE RSum(_)
RSum(seq) ==
    IF seq = <<>> THEN RInt(0)
    ELSE IF Len(seq) = 1 THEN seq[1]
    ELSE RAdd(RSum(SubSeq(seq, 1, Len(seq) \div 2)), RSum(SubSeq(seq, Len(seq) \div 2 + 1, Len(seq))))

\* n / d as a float, otherwise when d is 0
Ratio(n, d, otherwise) == IF d > 0 THEN Rat(n, d) ELSE otherwise

is_fact_name(t) == startswith(lower(t.name), "fact_")
is_dim_name(t) == startswith(lower(t.name), "dim_")
has_fk_token(col) == token_count(col.constraints, "FOREIGN KEY") > 0
has_pk_token(col) == token_count(col.constraints, "PRIMARY KEY") > 0

\* the number of fact_ tables and of dim_ tables of a schema
fact_count(schema) == Cardinality({i \in DOMAIN schema : is_fact_name(schema[i])})
dim_count(schema) == Cardinality({i \in DOMAIN schema : is_dim_name(schema[i])})

\* a bonus by pattern: both kinds of table, one kind, neither
pattern_bonus(facts, dims, both, one, neither) ==
    IF facts > 0 /\ dims > 0 THEN both ELSE IF facts > 0 \/ dims > 0 THEN one ELSE neither

\* a bonus proportional to the excess of a score over a threshold
excess_bonus(score, threshold, factor) ==
    IF RGt(score, threshold) THEN RMul(RSub(score, threshold), factor) ELSE RInt(0)

(***************************************************************************)
(* SchemaEvaluationFramework: weights                                      *)
(***************************************************************************)
\* the weights of two algorithms exchanged
weights_exchanged == [structural |-> Rat(25, 100), semantic |-> Rat(15, 100),
                      best_practices |-> Rat(20, 100), quality |-> Rat(20, 100),
                      relationships |-> Rat(15, 100), domain_alignment |-> Rat(5, 100)]

weights == [structural |-> Rat(20, 100), semantic |-> Rat(15, 100),
            best_practices |-> Rat(25, 100), quality |-> Rat(20, 100),
            relationships |-> Rat(15, 100), domain_alignment |-> Rat(5, 100)]

\* SchemaEvaluationFramework(): the fields of a new instance
SchemaEvaluationFramework ==
    [weights |-> weights,
     dw_patterns |->
         [fact_table_indicators |->
              <<"fact_", "sales_", "transaction_", "order_", "event_", "activity_", "performance_">>,
          dimension_indicators |->
              <<"dim_", "customer", "product", "date", "time", "location", "geography", "activity_type",
                "shipping">>,
          key_patterns |-> <<"_key", "_id", "surrogate_key", "business_key">>,
          measure_patterns |->
              <<"amount", "quantity", "count", "total", "sum", "revenue", "cost", "price", "units_sold",
                "page_views">>,
          audit_columns |->
              <<"created_date", "updated_date", "effective_date", "expiry_date", "is_current", "created_at">>]]

(***************************************************************************)
(* Algorithm 1: Structural Similarity Analysis                             *)
(***************************************************************************)
extract_structural_features(schema) ==
    LET features(cols) ==
            [table_count |-> Len(schema),
             total_columns |-> Len(cols),
             data_types |-> {upper(cols[i].type) : i \in DOMAIN cols},
             relationship_count |-> token_count(AllTokens(cols), "FOREIGN KEY"),
             column_distribution |-> Ratio(Len(cols), Len(schema), RInt(0))]
    IN  features(AllColumns(schema))

warehouse_types == {"BIGINT", "INTEGER", "DECIMAL", "VARCHAR", "DATE", "BOOLEAN", "TIMESTAMP", "SERIAL"}

structural_similarity_analysis(target_schema, reference_schema) ==
    LET table_bonus(table_expansion_ratio) ==
            IF RGe(table_expansion_ratio, RInt(1)) /\ RLe(table_expansion_ratio, RInt(4))
            THEN RMin(RInt(8), RMul(RSub(table_expansion_ratio, RInt(1)), RInt(4)))
            ELSE IF RGe(table_expansion_ratio, Rat(7, 10)) THEN RInt(3)
            ELSE RInt(0)
        col_dist_bonus(target_col_dist) ==
            IF RLe(RInt(4), target_col_dist) /\ RLe(target_col_dist, RInt(15)) THEN RInt(6)
            ELSE IF RLe(RInt(3), target_col_dist) /\ RLe(target_col_dist, RInt(20)) THEN RInt(4)
            ELSE RInt(2)
        rel_bonus(target_rels, ref_rels) ==
            IF target_rels >= ref_rels
            THEN RMin(RInt(4), RAdd(RInt(2), RMul(RInt(target_rels - ref_rels), Rat(1, 2))))
            ELSE IF RGe(RInt(target_rels), RMul(RInt(ref_rels), Rat(7, 10))) THEN RInt(2)
            ELSE RInt(0)
        ssa_score(target_features, reference_features) ==
            RSum(<<RInt(82),
                   table_bonus(Ratio(target_features.table_count, reference_features.table_count, RInt(1))),
                   col_dist_bonus(target_features.column_distribution),
                   RMul(Rat(Cardinality(target_features.data_types \cap warehouse_types),
                            Cardinality(warehouse_types)), RInt(6)),
                   rel_bonus(target_features.relationship_count, reference_features.relationship_count),
                   pattern_bonus(fact_count(target_schema), dim_count(target_schema),
                                 RInt(5), RInt(3), RInt(0))>>)
    IN  IF reference_schema = <<>> \/ target_schema = <<>> THEN RInt(85)
        ELSE RMin(ssa_score(extract_structural_features(target_schema),
                            extract_structural_features(reference_schema)), RInt(100))

(***************************************************************************)
(* Algorithm 2: Semantic Coherence Scoring and its helpers                  *)
(***************************************************************************)
get_domain_keywords(domain) ==
    CASE domain = "E-commerce" -> <<"product", "customer", "order", "cart", "payment", "shipping", "inventory">>
      [] domain = "Healthcare" -> <<"patient", "doctor", "medical", "treatment", "diagnosis", "appointment">>
      [] domain = "Finance" -> <<"account", "transaction", "payment", "balance", "loan", "investment">>
      [] domain = "Education" -> <<"student", "course", "grade", "enrollment", "instructor", "academic">>
      [] domain = "Supply Chain" -> <<"supplier", "warehouse", "shipment", "inventory", "logistics">>
      [] domain = "Social Media" -> <<"user", "post", "comment", "like", "share", "follow">>
      [] OTHER -> <<>>

\* the mean of a sequence of scores, otherwise when it is empty
Mean(scores, otherwise) ==
    IF scores # <<>> THEN RDiv(RSum(scores), RInt(Len(scores))) ELSE otherwise

analyze_naming_consistency(schema) ==
    LET table_pattern(table_name) ==
            IF startswithAny(table_name, <<"fact_", "dim_">>) THEN RInt(1)
            ELSE IF containsAny(table_name, <<"customer", "product", "date", "order", "sales">>) THEN Rat(9, 10)
            ELSE Rat(7, 10)
        column_pattern(col_name) ==
            IF endswithAny(col_name, <<"_key", "_id">>) THEN RInt(1)
            ELSE IF containsAny(col_name, <<"date", "time", "amount", "quantity", "count",
                                            "total", "price", "revenue">>) THEN Rat(9, 10)
            ELSE IF col_name \in {"name", "description", "type", "status", "category"} THEN Rat(8, 10)
            ELSE Rat(7, 10)
        naming_patterns(cols) ==
            [i \in 1..Len(schema) |-> table_pattern(lower(schema[i].name))]
            \o [i \in 1..Len(cols) |-> column_pattern(lower(cols[i].name))]
        warehouse_bonus ==
            RMul(RInt(Cardinality({i \in DOMAIN schema :
                                     startswithAny(lower(schema[i].name), <<"fact_", "dim_">>)})),
                 Rat(1, 10))
    IN  RMin(RAdd(Mean(naming_patterns(AllColumns(schema)), Rat(7, 10)), warehouse_bonus), RInt(1))

\* score = min(1.0, score + step) once per keyword found in the name
RECURSIVE keyword_score(_, _, _, _)
keyword_score(name, kws, step, score) ==
    IF kws = <<>> THEN score
    ELSE keyword_score(name, Tail(kws), step,
                       IF contains(lower(name), lower(Head(kws))) THEN RMin(RInt(1), RAdd(score, step)) ELSE score)

analyze_domain_relevance(schema, domain) ==
    LET relevance_scores(cols, domain_keywords) ==
            [i \in 1..Len(schema) |-> keyword_score(schema[i].name, domain_keywords, Rat(2, 10), Rat(7, 10))]
            \o [i \in 1..Len(cols) |-> keyword_score(cols[i].name, domain_keywords, Rat(15, 100), Rat(7, 10))]
    IN  Mean(relevance_scores(AllColumns(schema), get_domain_keywords(domain)), Rat(7, 10))

analyze_logical_structure(schema) ==
    LET keys_score(cols) ==
            IF \E i \in DOMAIN cols :
                  /\ contains(lower(cols[i].name), "_key") \/ contains(lower(cols[i].name), "_id")
                  /\ cols[i].constraints # <<>>
            THEN Rat(3, 10) ELSE Rat(1, 10)
        type_score(cols) ==
            IF Len(cols) > 0
            THEN RMul(Rat(Cardinality({i \in DOMAIN cols :
                              containsAny(upper(cols[i].type),
                                  <<"INT", "DECIMAL", "VARCHAR", "DATE", "TIMESTAMP", "BOOLEAN", "BIGINT">>)}),
                          Len(cols)), Rat(3, 10))
            ELSE RInt(0)
        structure_score(cols) ==
            RSum(<<pattern_bonus(fact_count(schema), dim_count(schema), Rat(4, 10), Rat(3, 10), Rat(2, 10)),
                   keys_score(cols), type_score(cols)>>)
    IN  RMin(structure_score(AllColumns(schema)), RInt(1))

semantic_coherence_scoring(schema, domain) ==
    LET key_bonus(key_pattern_score) ==
            IF key_pattern_score >= 3 THEN RInt(4) ELSE IF key_pattern_score >= 1 THEN RInt(2) ELSE RInt(0)
        desc_bonus(descriptive_columns, total_columns) ==
            IF total_columns > 0
            THEN IF RGe(Rat(descriptive_columns, total_columns), Rat(4, 10)) THEN RInt(4)
                 ELSE IF RGe(Rat(descriptive_columns, total_columns), Rat(2, 10)) THEN RInt(2) ELSE RInt(0)
            ELSE RInt(0)
        semantic_bonus(cols) ==
            RAdd(key_bonus(Cardinality({i \in DOMAIN cols :
                               endswithAny(lower(cols[i].name), <<"_key", "_id">>)})),
                 desc_bonus(Cardinality({i \in DOMAIN cols :
                                containsAny(lower(cols[i].name),
                                    <<"name", "description", "title", "amount", "quantity",
                                      "date", "time", "price", "total">>)}),
                            Len(cols)))
    IN  RMin(RSum(<<RInt(82),
                    excess_bonus(analyze_naming_consistency(schema), Rat(7, 10), RInt(12)),
                    excess_bonus(analyze_domain_relevance(schema, domain), Rat(7, 10), RInt(8)),
                    excess_bonus(analyze_logical_structure(schema), Rat(6, 10), RInt(10)),
                    semantic_bonus(AllColumns(schema))>>),
             RInt(100))

(***************************************************************************)
(* Algorithm 3: Data Warehouse Best Practices Compliance and its checks     *)
(***************************************************************************)
check_fact_dim_separation(schema) ==
    LET isPotentialFact(t) ==
            /\ ~is_fact_name(t) /\ ~is_dim_name(t)
            /\ containsAny(lower(t.name), <<"sales", "order", "transaction", "activity", "performance">>)
        isPotentialDim(t) ==
            /\ ~is_fact_name(t) /\ ~is_dim_name(t) /\ ~isPotentialFact(t)
            /\ containsAny(lower(t.name), <<"customer", "product", "date", "time", "category", "type">>)
        separation(fact_tables, dim_tables, potential_facts, potential_dims) ==
            IF fact_tables > 0 /\ dim_tables > 0 THEN RInt(1)
            ELSE IF fact_tables + potential_facts > 0 /\ dim_tables + potential_dims > 0 THEN Rat(85, 100)
            ELSE IF fact_tables > 0 \/ dim_tables > 0 THEN Rat(7, 10)
            ELSE Rat(5, 10)
    IN  separation(fact_count(schema), dim_count(schema),
                   Cardinality({i \in DOMAIN schema : isPotentialFact(schema[i])}),
                   Cardinality({i \in DOMAIN schema : isPotentialDim(schema[i])}))

check_surrogate_keys(schema) ==
    LET is_auto_increment(col, col_type) ==
            \/ token_count(col.constraints, "AUTO_INCREMENT") > 0
            \/ contains(col_type, "SERIAL") \/ contains(col_type, "BIGINT") \/ contains(col_type, "INTEGER")
        is_key_column(col_name) ==
            endswithAny(col_name, <<"_key", "_id">>) \/ containsAny(col_name, <<"key", "id">>)
        isSurrogate(t, col) ==
            /\ has_pk_token(col)
            /\ is_auto_increment(col, upper(col.type))
            /\ is_key_column(lower(col.name)) \/ startswithAny(lower(t.name), <<"fact_", "dim_">>)
        grade(ratio) ==
            IF RGe(ratio, Rat(8, 10)) THEN RInt(1)
            ELSE IF RGe(ratio, Rat(6, 10)) THEN Rat(9, 10)
            ELSE IF RGe(ratio, Rat(4, 10)) THEN Rat(8, 10)
            ELSE IF RGe(ratio, Rat(2, 10)) THEN Rat(7, 10)
            ELSE RMax(Rat(5, 10), RMul(ratio, RInt(2)))
    IN  grade(Ratio(Cardinality({i \in DOMAIN schema :
                                    \E k \in DOMAIN schema[i].columns :
                                        isSurrogate(schema[i], schema[i].columns[k])}),
                    Len(schema), RInt(0)))

\* the number of tables, among those at positions idx, with a column whose
\* lower-cased name contains one of the indicators
tables_with_column(schema, idx, indicators) ==
    Cardinality({i \in idx : \E k \in DOMAIN schema[i].columns :
                                 containsAny(lower(schema[i].columns[k].name), indicators)})

check_scd_support(schema) ==
    Ratio(tables_with_column(schema, {i \in DOMAIN schema : is_dim_name(schema[i])},
                             <<"effective_date", "expiry_date", "is_current",
                               "scd_version", "valid_from", "valid_to">>),
          dim_count(schema), RInt(0))

check_date_dimension(schema) ==
    LET isDateTable(t) == contains(lower(t.name), "date") \/ contains(lower(t.name), "time")
        has_date_columns(cols) ==
            \E i \in DOMAIN cols :
                /\ contains(lower(cols[i].name), "date") \/ contains(lower(cols[i].name), "time")
                /\ contains(upper(cols[i].type), "DATE") \/ contains(upper(cols[i].type), "TIMESTAMP")
        essential_cols == <<"year", "month", "day", "quarter">>
        useful_cols == <<"week", "weekday", "weekend", "holiday">>
        present(t, names) ==
            Cardinality({n \in DOMAIN names :
                            \E k \in DOMAIN t.columns : contains(lower(t.columns[k].name), names[n])})
        tableScore(t) ==
            RMin(RAdd(RMul(Rat(present(t, essential_cols), Len(essential_cols)), Rat(8, 10)),
                      RMul(Rat(present(t, useful_cols), Len(useful_cols)), Rat(2, 10))),
                 RInt(1))
        RECURSIVE best(_, _)
        best(ts, acc) ==
            IF ts = <<>> THEN acc
            ELSE best(Tail(ts), IF isDateTable(Head(ts)) THEN RMax(acc, tableScore(Head(ts))) ELSE acc)
    IN  IF ~\E i \in DOMAIN schema : isDateTable(schema[i])
        THEN IF has_date_columns(AllColumns(schema)) THEN Rat(6, 10) ELSE Rat(3, 10)
        ELSE RMax(best(schema, RInt(0)), Rat(7, 10))

check_audit_trails(schema) ==
    Ratio(tables_with_column(schema, DOMAIN schema,
                             <<"created_date", "updated_date", "created_at", "updated_at", "modified_date">>),
          Len(schema), RInt(0))

check_fk_relationships(schema) ==
    LET valid_ratio(total_relationships, valid_relationships) ==
            Ratio(valid_relationships, total_relationships, RInt(1))
    IN  valid_ratio(token_count(AllTokens(AllColumns(schema)), "FOREIGN KEY"),
                    token_count(AllTokens(AllColumns(schema)), "FOREIGN KEY"))

dw_best_practices_compliance(schema) ==
    RMin(RMul(Mean(<<check_fact_dim_separation(schema), check_surrogate_keys(schema),
                     check_scd_support(schema), check_date_dimension(schema),
                     check_audit_trails(schema), check_fk_relationships(schema)>>, RInt(0)),
              RInt(100)),
         RInt(100))

(***************************************************************************)
(* Algorithm 4: Schema Quality Index and its assessments                    *)
(***************************************************************************)
\* the number of tables of a schema that have a columns list with entries
tables_with_columns(schema) == Cardinality({i \in DOMAIN schema : Len(schema[i].columns) > 0})

\* the number of columns with a non-empty constraints list
columns_with_constraints(cols) == Cardinality({i \in DOMAIN cols : cols[i].constraints # <<>>})

assess_completeness(schema) ==
    LET columns_bonus(with_columns) ==
            IF with_columns = Len(schema) THEN Rat(3, 10)
            ELSE IF RGe(RInt(with_columns), RMul(RInt(Len(schema)), Rat(8, 10))) THEN Rat(25, 100)
            ELSE RInt(0)
        columns_with_types(cols) == Cardinality({i \in DOMAIN cols : cols[i].type # ""})
        completeness_score(cols) ==
            RSum(<<Rat(2, 10), columns_bonus(tables_with_columns(schema)),
                   RMul(Ratio(columns_with_types(cols), Len(cols), RInt(0)), Rat(3, 10)),
                   RMul(Ratio(columns_with_constraints(cols), Len(cols), RInt(0)), Rat(2, 10))>>)
    IN  IF Len(schema) = 0 THEN RInt(0)
        ELSE RMin(completeness_score(AllColumns(schema)), RInt(1))

check_type_consistency(schema) ==
    LET groupOf(name) ==
            IF containsAny(name, <<"id", "key">>) THEN "identifier"
            ELSE IF containsAny(name, <<"date", "time">>) THEN "temporal"
            ELSE IF containsAny(name, <<"amount", "price", "cost", "revenue">>) THEN "monetary"
            ELSE IF containsAny(name, <<"quantity", "count", "number", "units">>) THEN "numeric"
            ELSE IF containsAny(name, <<"name", "description", "title">>) THEN "textual"
            ELSE "none"
        \* the number of distinct types per key of a mapping from keys to types
        types_per(key, types, k) == Cardinality({types[i] : i \in {j \in DOMAIN key : key[j] = k}})
        exact_ratio(names, types) ==
            IF Range(names) = {} THEN RInt(1)
            ELSE RDiv(RAdd(RInt(Cardinality({n \in Range(names) : types_per(names, types, n) = 1})),
                           RMul(RInt(Cardinality({n \in Range(names) : types_per(names, types, n) = 2})),
                                Rat(1, 2))),
                      RInt(Cardinality(Range(names))))
        semantic_ratio(groups, types) ==
            IF Range(groups) \ {"none"} = {} THEN RInt(1)
            ELSE RDiv(RAdd(RInt(Cardinality({g \in Range(groups) \ {"none"} : types_per(groups, types, g) <= 2})),
                           RMul(RInt(Cardinality({g \in Range(groups) \ {"none"} : types_per(groups, types, g) = 3})),
                                Rat(7, 10))),
                      RInt(Cardinality(Range(groups) \ {"none"})))
        consistency(names, types) ==
            RAdd(RMul(exact_ratio(names, types), Rat(4, 10)),
                 RMul(semantic_ratio([i \in DOMAIN names |-> groupOf(names[i])], types), Rat(6, 10)))
        of_columns(cols) ==
            consistency([i \in DOMAIN cols |-> lower(cols[i].name)], [i \in DOMAIN cols |-> upper(cols[i].type)])
    IN  of_columns(AllColumns(schema))

check_constraint_consistency(schema) ==
    LET has_primary_key(t) == token_count(AllTokens(t.columns), "PRIMARY KEY") > 0
        has_foreign_key(t) ==
            token_count(AllTokens(t.columns), "FOREIGN KEY") + token_count(AllTokens(t.columns), "REFERENCES") > 0
        categoryOf(t) == IF is_fact_name(t) THEN "fact_tables"
                         ELSE IF is_dim_name(t) THEN "dim_tables" ELSE "other_tables"
        stats(cat, category, pk, fk) ==
            [pk |-> Cardinality({i \in DOMAIN schema : category[i] = cat /\ pk[i]}),
             fk |-> Cardinality({i \in DOMAIN schema : category[i] = cat /\ fk[i]}),
             total |-> Cardinality({i \in DOMAIN schema : category[i] = cat})]
        categoryScore(cat, st) ==
            IF st.total = 0 THEN RInt(0)
            ELSE IF cat = "fact_tables"
            THEN RDiv(RAdd(RMin(Rat(st.pk, st.total), RInt(1)), RMin(Rat(st.fk, st.total), RInt(1))), RInt(2))
            ELSE IF cat = "dim_tables"
            THEN RMin(Rat(st.pk, st.total), RInt(1))
            ELSE RMin(RAdd(Rat(st.pk + st.fk, st.total * 2), Rat(3, 10)), RInt(1))
        average(total, populated) == IF populated > 0 THEN RDiv(total, RInt(populated)) ELSE Rat(8, 10)
        consistency_score(pk, table_stats) ==
            RAdd(RMul(Ratio(Cardinality({i \in DOMAIN schema : pk[i]}), Len(schema), RInt(0)), Rat(4, 10)),
                 RMul(average(RSum([c \in DOMAIN table_stats |-> categoryScore(table_stats[c].cat, table_stats[c].st)]),
                              Cardinality({c \in DOMAIN table_stats : table_stats[c].st.total > 0})),
                      Rat(6, 10)))
        by_category(category, pk, fk) ==
            consistency_score(pk, [c \in 1..3 |->
                                      [cat |-> <<"fact_tables", "dim_tables", "other_tables">>[c],
                                       st |-> stats(<<"fact_tables", "dim_tables", "other_tables">>[c],
                                                    category, pk, fk)]])
    IN  RMin(by_category([i \in DOMAIN schema |-> categoryOf(schema[i])],
                         [i \in DOMAIN schema |-> has_primary_key(schema[i])],
                         [i \in DOMAIN schema |-> has_foreign_key(schema[i])]),
             RInt(1))

assess_consistency(schema) ==
    RMin(RSum(<<RMul(analyze_naming_consistency(schema), Rat(4, 10)),
                RMul(check_type_consistency(schema), Rat(3, 10)),
                RMul(check_constraint_consistency(schema), Rat(3, 10))>>),
         RInt(1))

valid_types == <<"SERIAL", "BIGINT", "INTEGER", "INT", "SMALLINT", "TINYINT",
                 "DECIMAL", "NUMERIC", "FLOAT", "DOUBLE", "REAL",
                 "VARCHAR", "CHAR", "TEXT", "STRING",
                 "DATE", "TIME", "TIMESTAMP", "DATETIME",
                 "BOOLEAN", "BOOL", "BIT",
                 "JSON", "JSONB", "XML">>

\* s.split(sep)[0]
before(s, sep) ==
    LET cut(i) == IF i = 0 THEN s ELSE SubSeq(s, 1, i - 1)
    IN  cut(find(s, sep))

check_valid_data_types(schema) ==
    LET valid(base_type) == base_type \in Range(valid_types) \/ containsAny(base_type, valid_types)
        isValid(col_type) == valid(strip(before(col_type, "(")))
        valid_ratio(cols) ==
            Ratio(Cardinality({i \in DOMAIN cols : isValid(upper(cols[i].type))}), Len(cols), RInt(1))
    IN  RMin(RMul(valid_ratio(AllColumns(schema)), Rat(11, 10)), RInt(1))

\* the tokens of cols whose upper-cased text contains one of the patterns,
\* as the indexes of their columns: one entry per token, in order
RECURSIVE TokenOwners(_, _, _)
TokenOwners(cols, pats, i) ==
    IF i > Len(cols) THEN <<>>
    ELSE [k \in 1..Cardinality({k \in DOMAIN cols[i].constraints :
                                   containsAny(upper(cols[i].constraints[k]), pats)}) |-> i]
         \o TokenOwners(cols, pats, i + 1)

check_logical_constraints(schema) ==
    LET grade(ratio) ==
            IF RGe(ratio, Rat(8, 10)) THEN RInt(1)
            ELSE IF RGe(ratio, Rat(6, 10)) THEN Rat(9, 10)
            ELSE IF RGe(ratio, Rat(4, 10)) THEN Rat(8, 10)
            ELSE RMax(Rat(6, 10), RMul(ratio, Rat(15, 10)))
    IN  grade(Ratio(Cardinality({i \in DOMAIN schema :
                                    TokenOwners(schema[i].columns,
                                                <<"PRIMARY KEY", "FOREIGN KEY", "UNIQUE", "NOT NULL",
                                                  "CHECK", "DEFAULT", "AUTO_INCREMENT", "REFERENCES">>, 1) # <<>>}),
                    Len(schema), RInt(0)))

check_fk_consistency(schema) ==
    LET consistent(column) ==
            \/ endswithAny(column, <<"_key", "_id">>)
            \/ containsAny(column, <<"customer", "product", "date", "order">>)
        grade(consistency_ratio) ==
            IF RGe(consistency_ratio, Rat(8, 10)) THEN RInt(1)
            ELSE IF RGe(consistency_ratio, Rat(6, 10)) THEN Rat(95, 100)
            ELSE RMax(Rat(85, 100), consistency_ratio)
        fk_score(cols, foreign_keys) ==
            IF foreign_keys = <<>> THEN Rat(85, 100)
            ELSE grade(Rat(Cardinality({k \in DOMAIN foreign_keys : consistent(lower(cols[foreign_keys[k]].name))}),
                           Len(foreign_keys)))
    IN  IF schema = <<>> THEN RInt(1)
        ELSE fk_score(AllColumns(schema), TokenOwners(AllColumns(schema), <<"FOREIGN KEY", "REFERENCES">>, 1))

assess_correctness(schema) ==
    RMin(RSum(<<RMul(check_valid_data_types(schema), Rat(3, 10)),
                RMul(check_logical_constraints(schema), Rat(3, 10)),
                RMul(check_fk_consistency(schema), Rat(2, 10)),
                RMul(RMin(RAdd(Rat(8, 10), RMul(RInt(tables_with_columns(schema)), Rat(5, 100))), RInt(1)),
                     Rat(2, 10))>>),
         RInt(1))

assess_conciseness(schema) ==
    LET table_score(table_count) ==
            IF 5 <= table_count /\ table_count <= 15 THEN RInt(1)
            ELSE IF 3 <= table_count /\ table_count <= 20 THEN Rat(8, 10)
            ELSE IF 1 <= table_count /\ table_count <= 25 THEN Rat(6, 10)
            ELSE Rat(4, 10)
        column_score(avg_columns) ==
            IF RLe(RInt(5), avg_columns) /\ RLe(avg_columns, RInt(15)) THEN RInt(1)
            ELSE IF RLe(RInt(3), avg_columns) /\ RLe(avg_columns, RInt(20)) THEN Rat(8, 10)
            ELSE Rat(6, 10)
    IN  IF Len(schema) = 0 THEN RInt(0)
        ELSE RDiv(RAdd(table_score(Len(schema)),
                       column_score(Ratio(Len(AllColumns(schema)), Len(schema), RInt(0)))),
                  RInt(2))

schema_quality_index(schema) ==
    LET pk_bonus(pk_ratio) ==
            IF RGe(pk_ratio, Rat(8, 10)) THEN RInt(3) ELSE IF RGe(pk_ratio, Rat(6, 10)) THEN RInt(2) ELSE RInt(0)
        type_bonus(type_quality_ratio) == IF RGe(type_quality_ratio, Rat(8, 10)) THEN RInt(2) ELSE RInt(0)
        constraint_bonus(constraint_ratio) ==
            IF RGe(constraint_ratio, Rat(3, 10)) THEN RInt(2)
            ELSE IF RGe(constraint_ratio, Rat(2, 10)) THEN RInt(1) ELSE RInt(0)
        good_type_usage(cols) ==
            Cardinality({i \in DOMAIN cols :
                            containsAny(upper(cols[i].type),
                                        <<"DECIMAL", "VARCHAR", "INTEGER", "BIGINT", "DATE", "TIMESTAMP", "BOOLEAN">>)})
        quality_bonus(cols) ==
            RSum(<<pk_bonus(Ratio(Cardinality({i \in DOMAIN schema :
                                                  \E k \in DOMAIN schema[i].columns :
                                                      has_pk_token(schema[i].columns[k])}),
                                  Len(schema), RInt(0))),
                   type_bonus(Ratio(good_type_usage(cols), Len(cols), Rat(8, 10))),
                   constraint_bonus(Ratio(columns_with_constraints(cols), Len(cols), RInt(0)))>>)
    IN  RMin(RSum(<<RInt(85),
                    excess_bonus(assess_completeness(schema), Rat(8, 10), RInt(8)),
                    excess_bonus(assess_consistency(schema), Rat(8, 10), RInt(6)),
                    excess_bonus(assess_correctness(schema), Rat(8, 10), RInt(5)),
                    excess_bonus(assess_conciseness(schema), Rat(7, 10), RInt(4)),
                    quality_bonus(AllColumns(schema))>>),
             RInt(100))

(***************************************************************************)
(* Algorithm 5: Relationship Integrity Metric and its checks                *)
(***************************************************************************)
check_referential_integrity(schema) ==
    LET integrity(cols, owners) ==
            IF Len(owners) = 0 THEN Rat(9, 10)
            ELSE RMin(RAdd(Rat(Cardinality({k \in DOMAIN owners :
                                               endswithAny(lower(cols[owners[k]].name), <<"_key", "_id">>)}),
                               Len(owners)),
                           Rat(1, 10)),
                      RInt(1))
    IN  IF schema = <<>> THEN RInt(1)
        ELSE integrity(AllColumns(schema), TokenOwners(AllColumns(schema), <<"FOREIGN KEY">>, 1))

check_cardinality_appropriateness(schema) ==
    LET appropriate(col_name) ==
            endswith(col_name, "_key") /\ containsAny(col_name, <<"customer", "product", "date", "time">>)
        cardinality(fk_columns) ==
            IF Len(fk_columns) = 0 THEN Rat(9, 10)
            ELSE RMin(RAdd(Rat(Cardinality({k \in DOMAIN fk_columns : appropriate(lower(fk_columns[k].name))}),
                               Len(fk_columns)),
                           Rat(2, 10)),
                      RInt(1))
        of_fact_columns(cols) == cardinality(Pick(cols, {k \in DOMAIN cols : has_fk_token(cols[k])}, 1))
    IN  IF fact_count(schema) = 0 /\ dim_count(schema) = 0 THEN Rat(85, 100)
        ELSE of_fact_columns(AllColumns(Pick(schema, {i \in DOMAIN schema : is_fact_name(schema[i])}, 1)))

\* the value standing for an IndexError raised by list indexing
IndexError == "IndexError"

\* s.split()[0]: the first whitespace-delimited word, IndexError when there is none
RECURSIVE word_prefix(_)
word_prefix(s) == IF s = "" \/ IsSpace(Head(s)) THEN "" ELSE Head(s) \o word_prefix(Tail(s))

first_word(s) == IF strip(s) = "" THEN IndexError ELSE word_prefix(lstrip(s))

\* constraint_str.split('REFERENCES')[1]
after_references(constraint_str) ==
    before(SubSeq(constraint_str, find(constraint_str, "REFERENCES") + 10, Len(constraint_str)), "REFERENCES")

\* ref_part.split('(')[0].strip().split()[0]
referenced_table(constraint) ==
    first_word(strip(before(strip(after_references(upper(constraint))), "(")))

\* the tables referenced by the REFERENCES tokens among tokens, in order
referenced_tables(tokens) ==
    LET referenced(reference_tokens) ==
            [k \in DOMAIN reference_tokens |-> referenced_table(reference_tokens[k])]
    IN  referenced(Pick(tokens, {k \in DOMAIN tokens : contains(upper(tokens[k]), "REFERENCES")}, 1))

\* dependencies[table_name]: the referenced names other than table_name,
\* each once, in order of first occurrence
dependencies_of(t) ==
    LET first_occurrences(refs) ==
            Pick(refs, {k \in DOMAIN refs : /\ refs[k] # "" /\ refs[k] # t.name
                                            /\ \A j \in 1..(k - 1) : refs[j] # refs[k]}, 1)
    IN  first_occurrences(referenced_tables(AllTokens(t.columns)))

build_dependencies(schema) ==
    [n \in Range(keys(schema)) |-> dependencies_of(schema[CHOOSE k \in DOMAIN schema : schema[k].name = n])]

\* has_cycle(node, visited, rec_stack) and its loop over the neighbours;
\* both return [found, visited, rec_stack]
RECURSIVE has_cycle(_, _, _, _)
RECURSIVE visit_neighbors(_, _, _, _)
\* has_cycle without rec_stack.remove(node)
has_cycle_keeping_stack(deps, node, visited, rec_stack) ==
    visit_neighbors(deps, IF node \in DOMAIN deps THEN deps[node] ELSE <<>>,
                    visited \cup {node}, rec_stack \cup {node})

has_cycle(deps, node, visited, rec_stack) ==
    LET leave(r) ==
            IF r.found THEN r
            ELSE [found |-> FALSE, visited |-> r.visited, rec_stack |-> r.rec_stack \ {node}]
    IN  leave(visit_neighbors(deps, IF node \in DOMAIN deps THEN deps[node] ELSE <<>>,
                              visited \cup {node}, rec_stack \cup {node}))

visit_neighbors(deps, nbrs, visited, rec_stack) ==
    LET continue(r) == IF r.found THEN r ELSE visit_neighbors(deps, Tail(nbrs), r.visited, r.rec_stack)
    IN  IF nbrs = <<>> THEN [found |-> FALSE, visited |-> visited, rec_stack |-> rec_stack]
        ELSE IF Head(nbrs) \notin visited THEN continue(has_cycle(deps, Head(nbrs), visited, rec_stack))
        ELSE IF Head(nbrs) \in rec_stack THEN [found |-> TRUE, visited |-> visited, rec_stack |-> rec_stack]
        ELSE visit_neighbors(deps, Tail(nbrs), visited, rec_stack)

\* the loop over schema.keys() with the shared visited set
RECURSIVE cycle_from_roots(_, _, _)
cycle_from_roots(deps, roots, visited) ==
    LET next_root(r) == r.found \/ cycle_from_roots(deps, Tail(roots), r.visited)
    IN  IF roots = <<>> THEN FALSE
        ELSE IF Head(roots) \in visited THEN cycle_from_roots(deps, Tail(roots), visited)
        ELSE next_root(has_cycle(deps, Head(roots), visited, {}))

check_circular_references(schema) ==
    IF \E i \in DOMAIN schema : IndexError \in Range(referenced_tables(AllTokens(schema[i].columns)))
    THEN IndexError
    ELSE IF cycle_from_roots(build_dependencies(schema), keys(schema), {}) THEN Rat(8, 10)
    ELSE RInt(1)

\* relationship_integrity_metric without a result for a schema that has no
\* column: it raises instead
relationship_integrity_unguarded(schema) ==
    LET metric(integrity_checks, circular_ref_score) ==
            IF circular_ref_score = IndexError THEN IndexError
            ELSE RMin(RMul(Mean(Append(integrity_checks, circular_ref_score), RInt(0)), RInt(100)), RInt(100))
    IN  IF AllColumns(schema) = <<>> THEN IndexError
        ELSE metric(<<check_fk_consistency(schema), check_referential_integrity(schema),
                      check_cardinality_appropriateness(schema)>>,
                    check_circular_references(schema))

relationship_integrity_metric(schema) ==
    LET metric(integrity_checks, circular_ref_score) ==
            IF circular_ref_score = IndexError THEN IndexError
            ELSE RMin(RMul(Mean(Append(integrity_checks, circular_ref_score), RInt(0)), RInt(100)), RInt(100))
    IN  IF schema = <<>> THEN RInt(0)
        ELSE metric(<<check_fk_consistency(schema), check_referential_integrity(schema),
                      check_cardinality_appropriateness(schema)>>,
                    check_circular_references(schema))

(***************************************************************************)
(* Algorithm 6: Domain Alignment Score and its checks                       *)
(***************************************************************************)
get_domain_patterns(domain) ==
    CASE domain = "E-commerce" ->
            [tables |-> <<"product", "customer", "order", "payment", "inventory">>,
             columns |-> <<"price", "quantity", "total", "discount", "tax">>]
      [] domain = "Healthcare" ->
            [tables |-> <<"patient", "doctor", "appointment", "treatment", "medication">>,
             columns |-> <<"diagnosis", "treatment_date", "dosage", "symptoms">>]
      [] domain = "Finance" ->
            [tables |-> <<"account", "transaction", "customer", "loan", "investment">>,
             columns |-> <<"amount", "balance", "interest_rate", "currency">>]
      [] domain = "Education" ->
            [tables |-> <<"student", "course", "enrollment", "grade", "instructor">>,
             columns |-> <<"grade", "credit_hours", "gpa", "semester">>]
      [] OTHER -> [tables |-> <<>>, columns |-> <<>>]

\* any(pattern.lower() in name for pattern in patterns)
matches_pattern(name, patterns) == \E p \in DOMAIN patterns : contains(name, lower(patterns[p]))

check_table_name_alignment(schema, patterns) ==
    LET credit(table_lower) ==
            IF matches_pattern(table_lower, patterns.tables) THEN RInt(1)
            ELSE IF containsAny(table_lower, <<"fact_", "dim_", "staging_">>) THEN Rat(7, 10)
            ELSE IF containsAny(table_lower, <<"customer", "product", "order", "transaction", "date", "time">>)
            THEN Rat(6, 10)
            ELSE RInt(0)
    IN  IF patterns.tables = <<>> THEN Rat(8, 10)
        ELSE RMin(Mean([i \in DOMAIN schema |-> credit(lower(schema[i].name))], Rat(8, 10)), RInt(1))

check_column_name_alignment(schema, patterns) ==
    LET credit(col_name) ==
            IF matches_pattern(col_name, patterns.columns) THEN RInt(1)
            ELSE IF containsAny(col_name, <<"id", "key", "name", "description", "date", "time",
                                            "amount", "quantity", "price", "total">>) THEN Rat(7, 10)
            ELSE IF endswithAny(col_name, <<"_key", "_id", "_date", "_amount">>) THEN Rat(8, 10)
            ELSE RInt(0)
        alignment(cols) == Mean([i \in DOMAIN cols |-> credit(lower(cols[i].name))], Rat(8, 10))
    IN  IF patterns.columns = <<>> THEN Rat(8, 10)
        ELSE RMin(alignment(AllColumns(schema)), RInt(1))

essential_entities(domain) ==
    CASE domain = "E-commerce" -> <<"customer", "product", "order">>
      [] domain = "Healthcare" -> <<"patient", "doctor", "appointment">>
      [] domain = "Finance" -> <<"account", "transaction", "customer">>
      [] domain = "Education" -> <<"student", "course", "enrollment">>
      [] domain = "Retail" -> <<"customer", "product", "sales">>
      [] domain = "Supply Chain" -> <<"supplier", "inventory", "shipment">>
      [] OTHER -> <<"customer", "product", "transaction">>

\* the number of entities that occur in the lower-cased name of some table
found_entities(schema, entities) ==
    Cardinality({e \in DOMAIN entities : \E i \in DOMAIN schema : contains(lower(schema[i].name), entities[e])})

check_business_rule_alignment(schema, domain) ==
    LET kindOf(col_name) ==
            IF containsAny(col_name, <<"price", "amount", "cost", "total", "revenue">>) THEN "money"
            ELSE IF containsAny(col_name, <<"quantity", "count", "number">>) THEN "count"
            ELSE IF containsAny(col_name, <<"date", "time">>) THEN "date"
            ELSE "none"
        proper(kind, col_type) ==
            \/ kind = "money" /\ containsAny(col_type, <<"DECIMAL", "NUMERIC">>)
            \/ kind = "count" /\ containsAny(col_type, <<"INT", "DECIMAL", "NUMERIC">>)
            \/ kind = "date" /\ containsAny(col_type, <<"DATE", "TIMESTAMP", "TIME">>)
        type_score(cols, kinds) ==
            Ratio(Cardinality({i \in DOMAIN cols : proper(kinds[i], upper(cols[i].type))}),
                  Cardinality({i \in DOMAIN cols : kinds[i] # "none"}), Rat(8, 10))
        type_score_of(cols) == type_score(cols, [i \in DOMAIN cols |-> kindOf(lower(cols[i].name))])
        tables_with_constraints ==
            Cardinality({i \in DOMAIN schema : columns_with_constraints(schema[i].columns) > 0})
    IN  RMin(RSum(<<RMul(Ratio(found_entities(schema, essential_entities(domain)),
                               Len(essential_entities(domain)), RInt(1)), Rat(4, 10)),
                    RMul(type_score_of(AllColumns(schema)), Rat(3, 10)),
                    RMul(Ratio(tables_with_constraints, Len(schema), Rat(8, 10)), Rat(3, 10))>>),
             RInt(1))

domain_alignment_score(schema, domain) ==
    LET monetary(cols) ==
            Cardinality({i \in DOMAIN cols : /\ containsAny(lower(cols[i].name), <<"price", "amount", "cost", "total">>)
                                             /\ contains(upper(cols[i].type), "DECIMAL")})
        temporal(cols) ==
            Cardinality({i \in DOMAIN cols : /\ containsAny(lower(cols[i].name), <<"date", "time">>)
                                             /\ containsAny(upper(cols[i].type), <<"DATE", "TIMESTAMP", "TIME">>)})
        data_type_bonus(cols) ==
            RMin(RInt(4), RAdd(RMul(RInt(monetary(cols)), Rat(5, 10)), RMul(RInt(temporal(cols)), Rat(3, 10))))
        entity_bonus(found) == RMin(RInt(8), RMul(RInt(found), Rat(15, 10)))
    IN  RMin(RSum(<<RInt(80),
                    excess_bonus(check_table_name_alignment(schema, get_domain_patterns(domain)), Rat(8, 10), RInt(10)),
                    excess_bonus(check_column_name_alignment(schema, get_domain_patterns(domain)), Rat(8, 10), RInt(8)),
                    excess_bonus(check_business_rule_alignment(schema, domain), Rat(7, 10), RInt(12)),
                    entity_bonus(found_entities(schema, <<"customer", "product", "order", "transaction",
                                                          "sales", "date", "time">>)),
                    pattern_bonus(fact_count(schema), dim_count(schema), RInt(6), RInt(3), RInt(0)),
                    data_type_bonus(AllColumns(schema))>>),
             RInt(100))

(***************************************************************************)
(* _evaluate_single_schema and evaluate_schemas                             *)
(***************************************************************************)
get_schema_statistics(schema) ==
    [total_tables |-> Len(schema),
     fact_tables |-> fact_count(schema),
     dimension_tables |-> dim_count(schema),
     total_columns |-> Len(AllColumns(schema)),
     avg_columns_per_table |-> Ratio(Len(AllColumns(schema)), Len(schema), RInt(0))]

get_detailed_metrics(schema, domain) ==
    [table_count |-> Len(schema),
     fact_tables |-> fact_count(schema),
     dimension_tables |-> dim_count(schema),
     total_columns |-> Len(AllColumns(schema)),
     tables_with_audit_columns |->
         tables_with_column(schema, DOMAIN schema, <<"created_date", "updated_date", "created_at", "updated_at">>),
     tables_with_surrogate_keys |->
         Cardinality({i \in DOMAIN schema :
                         \E k \in DOMAIN schema[i].columns :
                             /\ endswith(lower(schema[i].columns[k].name), "_key")
                             /\ has_pk_token(schema[i].columns[k])}),
     foreign_key_relationships |->
         Cardinality({i \in DOMAIN AllColumns(schema) : has_fk_token(AllColumns(schema)[i])})]

\* an exception escaping a method that otherwise returns a dict
Raise(e) == [raised |-> e]

\* the six sub-scores as the algorithms return them
raw_scores(target_schema, reference_schema, domain) ==
    [structural |-> structural_similarity_analysis(target_schema, reference_schema),
     semantic |-> semantic_coherence_scoring(target_schema, domain),
     best_practices |-> dw_best_practices_compliance(target_schema),
     quality |-> schema_quality_index(target_schema),
     relationships |-> relationship_integrity_metric(target_schema),
     domain_alignment |-> domain_alignment_score(target_schema, domain)]

\* the adjustment for schema_type without its floors and caps
adjusted_scores_unclamped(raw, schema_type) ==
    IF raw.relationships = IndexError THEN Raise(IndexError)
    ELSE IF schema_type = "ai_enhanced"
    THEN [structural |-> RAdd(raw.structural, RInt(2)),
          semantic |-> RAdd(raw.semantic, RInt(3)),
          best_practices |-> RAdd(raw.best_practices, RInt(4)),
          quality |-> RAdd(raw.quality, Rat(5, 2)),
          relationships |-> RAdd(raw.relationships, Rat(3, 2)),
          domain_alignment |-> RAdd(raw.domain_alignment, RInt(2))]
    ELSE IF schema_type = "warehouse"
    THEN [structural |-> RSub(raw.structural, Rat(3, 2)),
          semantic |-> RSub(raw.semantic, RInt(2)),
          best_practices |-> RSub(raw.best_practices, RInt(8)),
          quality |-> RSub(raw.quality, RInt(2)),
          relationships |-> RSub(raw.relationships, RInt(3)),
          domain_alignment |-> RSub(raw.domain_alignment, RInt(3))]
    ELSE raw

\* the adjustment with the caps of the ai_enhanced label and without the
\* floors of the warehouse label
adjusted_scores_without_floors(raw, schema_type) ==
    IF raw.relationships = IndexError THEN Raise(IndexError)
    ELSE IF schema_type = "ai_enhanced"
    THEN [structural |-> RMin(RAdd(raw.structural, RInt(2)), RInt(100)),
          semantic |-> RMin(RAdd(raw.semantic, RInt(3)), RInt(100)),
          best_practices |-> RMin(RAdd(raw.best_practices, RInt(4)), RInt(100)),
          quality |-> RMin(RAdd(raw.quality, Rat(5, 2)), RInt(100)),
          relationships |-> RMin(RAdd(raw.relationships, Rat(3, 2)), RInt(100)),
          domain_alignment |-> RMin(RAdd(raw.domain_alignment, RInt(2)), RInt(100))]
    ELSE IF schema_type = "warehouse"
    THEN [structural |-> RMax(RSub(raw.structural, Rat(3, 2)), RInt(0)),
          semantic |-> RMax(RSub(raw.semantic, RInt(2)), RInt(0)),
          best_practices |-> RMax(RSub(raw.best_practices, RInt(8)), RInt(0)),
          quality |-> RMax(RSub(raw.quality, RInt(2)), RInt(0)),
          relationships |-> RMax(RSub(raw.relationships, RInt(3)), RInt(0)),
          domain_alignment |-> RMax(RSub(raw.domain_alignment, RInt(3)), RInt(0))]
    ELSE raw

\* the six sub-scores after the adjustment for schema_type (the local
\* variables of _evaluate_single_schema before the weighted sum)
adjusted_scores(raw, schema_type) ==
    IF raw.relationships = IndexError THEN Raise(IndexError)
    ELSE IF schema_type = "ai_enhanced"
    THEN [structural |-> RMin(RAdd(raw.structural, RInt(2)), RInt(100)),
          semantic |-> RMin(RAdd(raw.semantic, RInt(3)), RInt(100)),
          best_practices |-> RMin(RAdd(raw.best_practices, RInt(4)), RInt(100)),
          quality |-> RMin(RAdd(raw.quality, Rat(5, 2)), RInt(100)),
          relationships |-> RMin(RAdd(raw.relationships, Rat(3, 2)), RInt(100)),
          domain_alignment |-> RMin(RAdd(raw.domain_alignment, RInt(2)), RInt(100))]
    ELSE IF schema_type = "warehouse"
    THEN [structural |-> RMax(RSub(raw.structural, Rat(3, 2)), RInt(75)),
          semantic |-> RMax(RSub(raw.semantic, RInt(2)), RInt(80)),
          best_practices |-> RMax(RSub(raw.best_practices, RInt(8)), RInt(70)),
          quality |-> RMax(RSub(raw.quality, RInt(2)), RInt(82)),
          relationships |-> RMax(RSub(raw.relationships, RInt(3)), RInt(85)),
          domain_alignment |-> RMax(RSub(raw.domain_alignment, RInt(3)), RInt(82))]
    ELSE raw

\* the weighted sum of six adjusted sub-scores
weighted_sum(sc, w) ==
    RSum(<<RMul(sc.structural, w.structural),
           RMul(sc.semantic, w.semantic),
           RMul(sc.best_practices, w.best_practices),
           RMul(sc.quality, w.quality),
           RMul(sc.relationships, w.relationships),
           RMul(sc.domain_alignment, w.domain_alignment)>>)

\* _evaluate_single_schema as a method of the instance self
evaluate_single_schema_of(self, target_schema, reference_schema, domain, schema_type) ==
    LET entry(score, weight) == [score |-> round2(score), weight |-> weight,
                                 weighted_score |-> round2(RMul(score, weight))]
        report(sc, w, detailed_metrics, schema_statistics) ==
            IF sc = Raise(IndexError) THEN sc
            ELSE [overall_score |-> round2(weighted_sum(sc, w)),
                  algorithm_scores |->
                     [structural_similarity_analysis |-> entry(sc.structural, w.structural),
                      semantic_coherence_scoring |-> entry(sc.semantic, w.semantic),
                      dw_best_practices_compliance |-> entry(sc.best_practices, w.best_practices),
                      schema_quality_index |-> entry(sc.quality, w.quality),
                      relationship_integrity_metric |-> entry(sc.relationships, w.relationships),
                      domain_alignment_score |-> entry(sc.domain_alignment, w.domain_alignment)],
                  detailed_metrics |-> detailed_metrics,
                  schema_statistics |-> schema_statistics]
    IN  report(adjusted_scores(raw_scores(target_schema, reference_schema, domain), schema_type), self.weights,
               get_detailed_metrics(target_schema, domain), get_schema_statistics(target_schema))

\* _evaluate_single_schema on a new instance
evaluate_single_schema(target_schema, reference_schema, domain, schema_type) ==
    evaluate_single_schema_of(SchemaEvaluationFramework, target_schema, reference_schema, domain, schema_type)

compare_schemas(warehouse_schema, ai_enhanced_schema) ==
    LET comparison(wk, ak) ==
            [warehouse_tables |-> Len(warehouse_schema),
             ai_enhanced_tables |-> Len(ai_enhanced_schema),
             table_difference |-> Len(ai_enhanced_schema) - Len(warehouse_schema),
             common_tables |-> Cardinality(wk \cap ak),
             warehouse_only_tables |-> wk \ ak,
             ai_enhanced_only_tables |-> ak \ wk]
    IN  comparison(Range(keys(warehouse_schema)), Range(keys(ai_enhanced_schema)))

generate_recommendations(warehouse_schema, ai_enhanced_schema, domain) ==
    LET recommendations(warehouse_stats, ai_stats) ==
            (IF warehouse_stats.fact_tables = 0
             THEN <<"Add explicit fact tables with proper naming (fact_*)">> ELSE <<>>)
            \o (IF warehouse_stats.dimension_tables < 3
                THEN <<"Consider adding more dimension tables for better analytical capabilities">> ELSE <<>>)
            \o (IF ~\E i \in DOMAIN warehouse_schema : contains(lower(warehouse_schema[i].name), "date")
                THEN <<"Add a comprehensive date dimension table for time-based analysis">> ELSE <<>>)
            \o (IF RGt(ai_stats.avg_columns_per_table, RAdd(warehouse_stats.avg_columns_per_table, RInt(2)))
                THEN <<"AI enhanced schema provides richer column structure">> ELSE <<>>)
            \o <<"Consider domain-specific enhancements for " \o domain \o " industry">>
    IN  recommendations(get_schema_statistics(warehouse_schema), get_schema_statistics(ai_enhanced_schema))

\* lines 58-89: the record returned, from the two evaluations
evaluation_results(warehouse_schema_evaluation, ai_enhanced_schema_evaluation, comparative_analysis, recommendations, domain, now) ==
    LET best(warehouse_score, ai_enhanced_score) ==
            IF RGt(warehouse_score, ai_enhanced_score)
            THEN [schema_type |-> "warehouse", score |-> warehouse_score,
                  reason |-> "Higher overall quality score with better structural alignment"]
            ELSE [schema_type |-> "ai_enhanced", score |-> ai_enhanced_score,
                  reason |-> "Superior comprehensive design with advanced features"]
    IN  IF warehouse_schema_evaluation = Raise(IndexError) THEN warehouse_schema_evaluation
        ELSE IF ai_enhanced_schema_evaluation = Raise(IndexError) THEN ai_enhanced_schema_evaluation
        ELSE [evaluation_timestamp |-> now,
              domain |-> domain,
              warehouse_schema_evaluation |-> warehouse_schema_evaluation,
              ai_enhanced_schema_evaluation |-> ai_enhanced_schema_evaluation,
              comparative_analysis |-> comparative_analysis,
              recommendations |-> recommendations,
              best_schema_recommendation |->
                 best(warehouse_schema_evaluation.overall_score, ai_enhanced_schema_evaluation.overall_score)]

evaluate_schemas(original_schema, warehouse_schema, ai_enhanced_schema, domain, now) ==
    evaluation_results(evaluate_single_schema(warehouse_schema, original_schema, domain, "warehouse"),
                       evaluate_single_schema(ai_enhanced_schema, original_schema, domain, "ai_enhanced"),
                       compare_schemas(warehouse_schema, ai_enhanced_schema),
                       generate_recommendations(warehouse_schema, ai_enhanced_schema, domain),
                       domain, now)

(***************************************************************************)
(* Warehouse synthesizer (schema_generation.py).  schema_details is the     *)
(* parsed source schema: a sequence of tables in file order, each with its  *)
(* columns (name, type, constraints text) and its table-level constraint    *)
(* fragments.                                                               *)
(***************************************************************************)
SourceTable(n, cols, cons) == [name |-> n, columns |-> cols, constraints |-> cons]

\* s.split(sep) for a one-character separator
RECURSIVE split(_, _)
split(s, sep) ==
    LET cut(i) == IF i = 0 THEN <<s>>
                  ELSE <<SubSeq(s, 1, i - 1)>> \o split(SubSeq(s, i + 1, Len(s)), sep)
    IN  cut(find(s, sep))

\* [col.strip() for col in s.split(',')]
split_columns(s) ==
    LET stripped(parts) == [k \in DOMAIN parts |-> strip(parts[k])]
    IN  stripped(split(s, ","))

\* \s* and \w* from position i, greedy: the position after the run
SpaceEnd(s, i) == Min({j \in i..(Len(s) + 1) : j = Len(s) + 1 \/ ~IsSpace(CharAt(s, j))})
WordEnd(s, i) == Min({j \in i..(Len(s) + 1) : j = Len(s) + 1 \/ ~IsWordChar(CharAt(s, j))})

NoMatch == [matched |-> FALSE]

\* REFERENCES\s+(\w+)\s*\((\w+)\) anchored at position i
ReferencesAt(s, i, ignorecase) ==
    LET column_group(t0, t1, p, c1) ==
            IF t1 > t0 /\ CharAt(s, p) = "(" /\ c1 > p + 1 /\ c1 <= Len(s) /\ CharAt(s, c1) = ")"
            THEN [matched |-> TRUE, table |-> SubSeq(s, t0, t1 - 1), column |-> SubSeq(s, p + 1, c1 - 1)]
            ELSE NoMatch
        paren(t0, t1, p) == IF p > Len(s) THEN NoMatch ELSE column_group(t0, t1, p, WordEnd(s, p + 1))
        table_group(t0, t1) == paren(t0, t1, SpaceEnd(s, t1))
        after_keyword(t0) == IF t0 > i + 10 THEN table_group(t0, WordEnd(s, t0)) ELSE NoMatch
        keyword(kw) == (IF ignorecase THEN upper(kw) ELSE kw) = "REFERENCES"
    IN  IF i + 9 > Len(s) THEN NoMatch
        ELSE IF keyword(SubSeq(s, i, i + 9)) THEN after_keyword(SpaceEnd(s, i + 10))
        ELSE NoMatch

\* re.search(r'REFERENCES\s+(\w+)\s*\((\w+)\)', s)
search_references(s) ==
    LET leftmost(hits) == IF hits = {} THEN NoMatch ELSE ReferencesAt(s, Min(hits), FALSE)
    IN  leftmost({i \in 1..Len(s) : ReferencesAt(s, i, FALSE).matched})

\* KEYWORD\s*\((.*?)\) anchored at i: the positions of "(" and of the ")"
\* candidates that may close the lazy group
KeyListAt(s, i, keyword) ==
    LET group(p) ==
            IF p > Len(s) \/ CharAt(s, p) # "("
            THEN [open |-> 0, closers |-> {}]
            ELSE [open |-> p,
                  closers |-> {q \in (p + 1)..Len(s) :
                                  /\ CharAt(s, q) = ")"
                                  /\ \A k \in (p + 1)..(q - 1) : CharAt(s, k) # "\n"}]
    IN  IF i + Len(keyword) - 1 > Len(s) \/ upper(SubSeq(s, i, i + Len(keyword) - 1)) # keyword
        THEN [open |-> 0, closers |-> {}]
        ELSE group(SpaceEnd(s, i + Len(keyword)))

\* re.search(r'PRIMARY KEY\s*\((.*?)\)', s, re.IGNORECASE): group 1
search_primary_key(s) ==
    LET group(m) == [matched |-> TRUE, columns |-> SubSeq(s, m.open + 1, Min(m.closers) - 1)]
        leftmost(hits) == IF hits = {} THEN NoMatch ELSE group(KeyListAt(s, Min(hits), "PRIMARY KEY"))
    IN  leftmost({i \in 1..Len(s) : KeyListAt(s, i, "PRIMARY KEY").closers # {}})

\* FOREIGN KEY\s*\((.*?)\)\s*REFERENCES\s+(\w+)\s*\((\w+)\) anchored at i
ForeignKeyAt(s, i) ==
    LET groups(m, q, r) ==
            [matched |-> TRUE, columns |-> SubSeq(s, m.open + 1, q - 1), table |-> r.table, column |-> r.column]
        closing(m, closers) ==
            IF closers = {} THEN NoMatch
            ELSE groups(m, Min(closers), ReferencesAt(s, SpaceEnd(s, Min(closers) + 1), TRUE))
        key_list(m) == closing(m, {q \in m.closers : ReferencesAt(s, SpaceEnd(s, q + 1), TRUE).matched})
    IN  key_list(KeyListAt(s, i, "FOREIGN KEY"))

\* re.search of the table-level foreign key pattern, re.IGNORECASE
search_foreign_key(s) ==
    LET leftmost(hits) == IF hits = {} THEN NoMatch ELSE ForeignKeyAt(s, Min(hits))
    IN  leftmost({i \in 1..Len(s) : ForeignKeyAt(s, i).matched})

ForeignKey(c, t, rc) == [column |-> c, references |-> [table |-> t, column |-> rc]]

RECURSIVE parse_primary_keys(_)
parse_primary_keys(constraints) ==
    LET pk_columns(pk_match) == IF pk_match.matched THEN split_columns(pk_match.columns) ELSE <<>>
    IN  IF constraints = <<>> THEN <<>>
        ELSE (IF contains(upper(Head(constraints)), "PRIMARY KEY")
              THEN pk_columns(search_primary_key(Head(constraints)))
              ELSE <<>>) \o parse_primary_keys(Tail(constraints))

RECURSIVE parse_foreign_keys(_)
parse_foreign_keys(constraints) ==
    LET entries(fk_match, fk_columns) ==
            [k \in DOMAIN fk_columns |-> ForeignKey(fk_columns[k], fk_match.table, fk_match.column)]
        foreign_keys(fk_match) ==
            IF fk_match.matched THEN entries(fk_match, split_columns(fk_match.columns)) ELSE <<>>
    IN  IF constraints = <<>> THEN <<>>
        ELSE (IF contains(upper(Head(constraints)), "FOREIGN KEY")
              THEN foreign_keys(search_foreign_key(Head(constraints)))
              ELSE <<>>) \o parse_foreign_keys(Tail(constraints))

\* the foreign keys declared on the columns, at most one per column
RECURSIVE column_foreign_keys(_)
column_foreign_keys(cols) ==
    LET foreign_key(col_name, fk_match) ==
            IF fk_match.matched THEN <<ForeignKey(col_name, fk_match.table, fk_match.column)>> ELSE <<>>
    IN  IF cols = <<>> THEN <<>>
        ELSE foreign_key(Head(cols).name, search_references(upper(Head(cols).constraints)))
             \o column_foreign_keys(Tail(cols))

\* the value standing for an AttributeError raised by a method call
AttributeError == "AttributeError"

\* a column whose constraints value is a Python list of tokens; a column made
\* by Col for this module carries its constraints as one str
TokenCol(n, t, tokens) == [name |-> n, type |-> t, constraints |-> tokens, constraints_type |-> "list"]
constraints_is_list(col) == "constraints_type" \in DOMAIN col

\* col['constraints'].upper() is a method of str: a list has none
upper_raises(table_info) ==
    \E k \in DOMAIN table_info.columns : constraints_is_list(table_info.columns[k])

parse_columns_and_constraints(table_info) ==
    IF upper_raises(table_info) THEN Raise(AttributeError)
    ELSE
    [columns |-> [k \in DOMAIN table_info.columns |->
                     [name |-> table_info.columns[k].name, type |-> table_info.columns[k].type]],
     primary_keys |->
         Pick([k \in DOMAIN table_info.columns |-> table_info.columns[k].name],
              {k \in DOMAIN table_info.columns : contains(upper(table_info.columns[k].constraints), "PRIMARY KEY")},
              1)
         \o parse_primary_keys(table_info.constraints),
     foreign_keys |->
         column_foreign_keys(table_info.columns) \o parse_foreign_keys(table_info.constraints)]

\* primary_keys is list(set(...)): an unordered collection of distinct names
parse_tables(schema_details) ==
    LET table(table_name, parsed) ==
            [name |-> table_name,
             columns |-> parsed.columns,
             primary_keys |-> Range(parsed.primary_keys),
             foreign_keys |-> parsed.foreign_keys]
    IN  IF \E k \in DOMAIN schema_details : upper_raises(schema_details[k])
        THEN Raise(AttributeError)
        ELSE [k \in DOMAIN schema_details |->
                 table(schema_details[k].name, parse_columns_and_constraints(schema_details[k]))]

\* fk_tables of identify_tables: the distinct referenced names of a table
fk_tables(table_info) ==
    {table_info.foreign_keys[k].references.table : k \in DOMAIN table_info.foreign_keys}

\* identify_tables with a table moved to the facts only from three targets on
identify_tables_three(tables) ==
    [fact_tables |-> Pick(tables, {i \in DOMAIN tables : Cardinality(fk_tables(tables[i])) >= 3}, 1),
     dimension_tables |-> Pick(tables, {i \in DOMAIN tables : Cardinality(fk_tables(tables[i])) < 2}, 1)]

identify_tables(tables) ==
    [fact_tables |-> Pick(tables, {i \in DOMAIN tables : Cardinality(fk_tables(tables[i])) >= 2}, 1),
     dimension_tables |-> Pick(tables, {i \in DOMAIN tables : ~(Cardinality(fk_tables(tables[i])) >= 2)}, 1)]


(***************************************************************************)
(* Naming conventions and gap analysis (enhancements.py,                   *)
(* standard_schemas.py).  Dictionaries are sequences of entries in         *)
(* insertion order.                                                        *)
(***************************************************************************)
Variation(std, vs) == [std |-> std, variations |-> vs]

COLUMN_VARIATIONS ==
    <<Variation("customer_id", <<"customer_id", "cust_id", "c_id">>),
      Variation("product_id", <<"product_id", "prod_id", "p_id">>),
      Variation("order_id", <<"order_id", "ord_id", "o_id">>),
      Variation("first_name", <<"first_name", "firstname", "f_name", "fname">>),
      Variation("last_name", <<"last_name", "lastname", "l_name", "lname">>),
      Variation("full_name", <<"full_name", "fullname", "name">>),
      Variation("email", <<"email", "email_address", "e_mail">>),
      Variation("phone", <<"phone", "phone_number", "contact_number">>),
      Variation("quantity", <<"quantity", "qty", "amount">>),
      Variation("price", <<"price", "cost", "amount">>),
      Variation("total_amount", <<"total_amount", "total", "amount_due", "total_price">>),
      Variation("order_date", <<"order_date", "date", "order_timestamp">>),
      Variation("created_at", <<"created_at", "creation_date", "created_on">>),
      Variation("updated_at", <<"updated_at", "updated_on", "modification_date">>)>>

TABLE_VARIATIONS ==
    <<Variation("customer_dimension",
                <<"customer_dimension", "customers", "customer", "cust_dim">>),
      Variation("product_dimension",
                <<"product_dimension", "products", "product", "prod_dim">>),
      Variation("date_dimension",
                <<"date_dimension", "dates", "date", "time_dim">>),
      Variation("store_dimension",
                <<"store_dimension", "stores", "store", "location_dim">>),
      Variation("sales_fact",
                <<"sales_fact", "sales", "orders", "order_items", "order_facts">>)>>

\* a template table; the analysis reads the column names only
StdTable(n, names) == [name |-> n, columns |-> [k \in 1..Len(names) |-> [name |-> names[k]]]]

\* the empty dictionary returned when the domain has no template
NoStandardSchema == [fact_tables |-> <<>>, dimension_tables |-> <<>>]

get_standard_schema_for_domain(domain) ==
    IF domain = "E-commerce" THEN
        [fact_tables |-> <<
            StdTable("sales_fact", <<"sale_id", "date_id", "customer_id",
                "product_id", "quantity", "total_amount", "discount_amount",
                "tax_amount", "shipping_cost", "store_id">>)>>,
         dimension_tables |-> <<
            StdTable("customer_dimension", <<"customer_id", "full_name",
                "email", "phone", "address", "created_at", "updated_at",
                "loyalty_points">>),
            StdTable("product_dimension", <<"product_id", "product_name",
                "category", "price", "sku", "inventory_level">>),
            StdTable("date_dimension", <<"date_id", "date", "year", "month",
                "day", "quarter", "is_holiday">>),
            StdTable("store_dimension", <<"store_id", "store_name",
                "location", "store_type">>)>>]
    ELSE IF domain = "Healthcare" THEN
        [fact_tables |-> <<
            StdTable("appointment_fact", <<"appointment_id", "date_id",
                "patient_id", "doctor_id", "diagnosis", "treatment", "cost",
                "payment_method">>)>>,
         dimension_tables |-> <<
            StdTable("patient_dimension", <<"patient_id", "full_name", "dob",
                "address", "phone", "email", "insurance_provider">>),
            StdTable("doctor_dimension", <<"doctor_id", "full_name",
                "specialization", "phone", "email", "years_experience">>),
            StdTable("date_dimension", <<"date_id", "date", "year", "month",
                "day", "quarter", "is_weekend">>)>>]
    ELSE IF domain = "Education" THEN
        [fact_tables |-> <<
            StdTable("enrollment_fact", <<"enrollment_id", "date_id",
                "student_id", "course_id", "grade", "attendance_rate">>)>>,
         dimension_tables |-> <<
            StdTable("student_dimension", <<"student_id", "full_name", "dob",
                "address", "phone", "email", "major">>),
            StdTable("course_dimension", <<"course_id", "course_name",
                "instructor", "subject", "credits">>),
            StdTable("date_dimension", <<"date_id", "date", "year", "month",
                "day", "quarter">>)>>]
    ELSE IF domain = "Finance" THEN
        [fact_tables |-> <<
            StdTable("transaction_fact", <<"transaction_id", "date_id",
                "account_id", "amount", "transaction_type", "currency">>)>>,
         dimension_tables |-> <<
            StdTable("account_dimension", <<"account_id", "account_name",
                "account_type", "balance", "branch">>),
            StdTable("date_dimension", <<"date_id", "date", "year", "month",
                "day", "quarter">>)>>]
    ELSE IF domain = "Supply Chain" THEN
        [fact_tables |-> <<
            StdTable("shipment_fact", <<"shipment_id", "date_id",
                "supplier_id", "product_id", "quantity", "warehouse_id">>)>>,
         dimension_tables |-> <<
            StdTable("supplier_dimension", <<"supplier_id", "supplier_name",
                "address", "phone", "email">>),
            StdTable("warehouse_dimension", <<"warehouse_id",
                "warehouse_name", "location">>),
            StdTable("product_dimension", <<"product_id", "product_name",
                "category", "price", "sku">>),
            StdTable("date_dimension", <<"date_id", "date", "year", "month",
                "day", "quarter">>)>>]
    ELSE IF domain = "Social Media" THEN
        [fact_tables |-> <<
            StdTable("post_fact", <<"post_id", "date_id", "user_id",
                "content", "likes", "comments">>)>>,
         dimension_tables |-> <<
            StdTable("user_dimension", <<"user_id", "username", "full_name",
                "email", "phone", "location">>),
            StdTable("date_dimension", <<"date_id", "date", "year", "month",
                "day", "quarter">>)>>]
    ELSE NoStandardSchema


\* the domain names with a template in get_standard_schema_for_domain
TemplateDomains == {"E-commerce", "Healthcare", "Education", "Finance", "Supply Chain", "Social Media"}

get_standard_column_name(column_name) ==
    LET first(hits) == IF hits = {} THEN column_name ELSE COLUMN_VARIATIONS[Min(hits)].std
    IN  first({k \in DOMAIN COLUMN_VARIATIONS : column_name \in Range(COLUMN_VARIATIONS[k].variations)})

standardize_column_names(tables) ==
    [k \in DOMAIN tables |->
        [tables[k] EXCEPT !.columns =
            [c \in DOMAIN tables[k].columns |->
                [tables[k].columns[c] EXCEPT
                    !.name = get_standard_column_name(lower(tables[k].columns[c].name))]]]]

combine_column_names(dimension_tables) ==
    LET combined(columns, column_names) ==
            (IF "first_name" \in column_names /\ "last_name" \in column_names
             THEN Append(Pick(columns, {c \in DOMAIN columns :
                                           lower(columns[c].name) \notin {"first_name", "last_name"}}, 1),
                         [name |-> "full_name", type |-> "VARCHAR(100)"])
             ELSE columns)
            \o (IF "created_at" \notin column_names
                THEN <<[name |-> "created_at", type |-> "TIMESTAMP"]>> ELSE <<>>)
            \o (IF "updated_at" \notin column_names
                THEN <<[name |-> "updated_at", type |-> "TIMESTAMP"]>> ELSE <<>>)
    IN  [k \in DOMAIN dimension_tables |->
            [dimension_tables[k] EXCEPT !.columns =
                combined(dimension_tables[k].columns,
                         {lower(dimension_tables[k].columns[c].name) : c \in DOMAIN dimension_tables[k].columns})]]

\* {**fact_tables, **dimension_tables}.keys()
user_tables_all(warehouse_schema) ==
    LET distinct(names) == Pick(names, {k \in DOMAIN names : \A j \in 1..(k - 1) : names[j] # names[k]}, 1)
    IN  distinct(keys(warehouse_schema.fact_tables) \o keys(warehouse_schema.dimension_tables))

\* a mapping that knows a template table under its own name only
exact_table_name_mapping(warehouse_schema, std_table_name) ==
    LET first(names, hits) == IF hits = {} THEN "" ELSE names[Min(hits)]
        named(names) == first(names, {k \in DOMAIN names : names[k] = std_table_name})
    IN  named(user_tables_all(warehouse_schema))

\* user_table_name_mapping.get(std_table_name), "" for None
user_table_name_mapping(warehouse_schema, std_table_name) ==
    LET first(names, hits) == IF hits = {} THEN "" ELSE names[Min(hits)]
        lookup(names, entries) ==
            IF entries = {} THEN ""
            ELSE first(names, {k \in DOMAIN names :
                                  lower(names[k]) \in Range(TABLE_VARIATIONS[Min(entries)].variations)})
    IN  lookup(user_tables_all(warehouse_schema),
               {e \in DOMAIN TABLE_VARIATIONS : TABLE_VARIATIONS[e].std = std_table_name})

\* fact_tables.get(name) or dimension_tables.get(name)
user_table(warehouse_schema, user_table_name) ==
    LET named(tables) == Pick(tables, {i \in DOMAIN tables : tables[i].name = user_table_name}, 1)
    IN  IF named(warehouse_schema.fact_tables) # <<>>
        THEN named(warehouse_schema.fact_tables)[1]
        ELSE named(warehouse_schema.dimension_tables)[1]

\* std_columns - user_columns for a mapped template table
missing_cols(warehouse_schema, std_table) ==
    LET difference(found) ==
            {lower(std_table.columns[c].name) : c \in DOMAIN std_table.columns}
            \ {lower(found.columns[c].name) : c \in DOMAIN found.columns}
    IN  difference(user_table(warehouse_schema, user_table_name_mapping(warehouse_schema, std_table.name)))

\* the gaps of a warehouse against a template: missing_columns is a
\* dictionary from template table names to sets of column names
gaps(warehouse_schema, standard_schema) ==
    LET columns_of(std_tables, lacking) ==
            [n \in {std_tables[k].name : k \in lacking} |->
                missing_cols(warehouse_schema, std_tables[CHOOSE k \in lacking : std_tables[k].name = n])]
        found(std_tables, user_names) ==
            [missing_tables |-> Pick(keys(std_tables), {k \in DOMAIN std_tables : user_names[k] = ""}, 1),
             missing_columns |->
                 columns_of(std_tables, {k \in DOMAIN std_tables :
                                            /\ user_names[k] # ""
                                            /\ missing_cols(warehouse_schema, std_tables[k]) # {}})]
        against(std_tables) ==
            found(std_tables,
                  [k \in DOMAIN std_tables |-> user_table_name_mapping(warehouse_schema, std_tables[k].name)])
    IN  against(standard_schema.fact_tables \o standard_schema.dimension_tables)

\* an analysis that adds the missing template tables to the warehouse
enhance_schema_in_place(warehouse_schema, domain) ==
    LET absent(tables, found) == Pick(tables, {i \in DOMAIN tables : tables[i].name \in Range(found.missing_tables)}, 1)
        enhanced(standard_schema, found) ==
            [warehouse_schema |->
                 [fact_tables |-> warehouse_schema.fact_tables \o absent(standard_schema.fact_tables, found),
                  dimension_tables |-> warehouse_schema.dimension_tables
                                       \o absent(standard_schema.dimension_tables, found)],
             missing_tables |-> found.missing_tables,
             missing_columns |-> found.missing_columns]
    IN  enhanced(get_standard_schema_for_domain(domain),
                 gaps(warehouse_schema, get_standard_schema_for_domain(domain)))

\* an analysis that falls back on the E-commerce template when the domain
\* has none
enhance_schema_with_default(warehouse_schema, domain) ==
    LET analysed(found) ==
            [warehouse_schema |-> warehouse_schema,
             missing_tables |-> found.missing_tables,
             missing_columns |-> found.missing_columns]
    IN  analysed(gaps(warehouse_schema,
                      IF get_standard_schema_for_domain(domain) = NoStandardSchema
                      THEN get_standard_schema_for_domain("E-commerce")
                      ELSE get_standard_schema_for_domain(domain)))

enhance_schema_with_domain(warehouse_schema, domain) ==
    LET analysed(standard_schema, found) ==
            IF standard_schema = NoStandardSchema
            THEN [warehouse_schema |-> warehouse_schema, missing_tables |-> <<>>, missing_columns |-> <<>>]
            ELSE [warehouse_schema |-> warehouse_schema,
                  missing_tables |-> found.missing_tables,
                  missing_columns |-> found.missing_columns]
    IN  analysed(get_standard_schema_for_domain(domain),
                 gaps(warehouse_schema, get_standard_schema_for_domain(domain)))

generate_warehouse_schema(schema_details, domain) ==
    LET warehouse(identified) ==
            [fact_tables |-> identified.fact_tables,
             dimension_tables |-> combine_column_names(identified.dimension_tables)]
    IN  IF \E k \in DOMAIN schema_details : upper_raises(schema_details[k])
        THEN Raise(AttributeError)
        ELSE enhance_schema_with_domain(
                 warehouse(identify_tables(standardize_column_names(parse_tables(schema_details)))), domain)

\* upload_schema, the annotation of the warehouse tables: pk_columns is the
\* set of the primary keys and fk_columns the set of the columns of the
\* foreign keys
annotate_key_columns(warehouse_schema) ==
    LET pk_columns(table_info) ==
            IF "primary_keys" \in DOMAIN table_info THEN table_info.primary_keys ELSE {}
        fk_columns(table_info) ==
            IF "foreign_keys" \in DOMAIN table_info
            THEN {table_info.foreign_keys[k].column : k \in DOMAIN table_info.foreign_keys}
            ELSE {}
        annotated(tables) ==
            [i \in DOMAIN tables |->
                [f \in DOMAIN tables[i] \cup {"pk_columns", "fk_columns"} |->
                    IF f = "pk_columns" THEN pk_columns(tables[i])
                    ELSE IF f = "fk_columns" THEN fk_columns(tables[i])
                    ELSE tables[i][f]]]
    IN  [fact_tables |-> annotated(warehouse_schema.fact_tables),
         dimension_tables |-> annotated(warehouse_schema.dimension_tables)]

(***************************************************************************)
(* DDL parser (code/back-end, utils/schema_parsing.py).  The parsed schema  *)
(* is a sequence of tables in order of first occurrence, each with its      *)
(* columns (name, type, constraint tokens) and its table-level constraint   *)
(* fragments.                                                               *)
(***************************************************************************)
\* s[i-1:] for a 1-based position i
suffix(s, i) == SubSeq(s, i, Len(s))

\* the greatest element of a non-empty set of integers
Max(S) == CHOOSE x \in S : \A y \in S : y <= x

\* re.sub(r'--.*\n', '', s): i is the position of the first "--", n the
\* offset of the first newline after it
RECURSIVE remove_comments(_)
remove_comments(s) ==
    LET removed(i, n) ==
            IF i = 0 \/ n = 0 THEN s
            ELSE SubSeq(s, 1, i - 1) \o remove_comments(suffix(s, i + 2 + n))
    IN  removed(find(s, "--"), find(suffix(s, find(s, "--") + 2), "\n"))

\* s.split()
RECURSIVE words(_)
words(s) ==
    LET from_word(t, w) == IF t = "" THEN <<>> ELSE <<w>> \o words(suffix(t, Len(w) + 1))
    IN  from_word(lstrip(s), word_prefix(lstrip(s)))

\* sep.join(parts)
RECURSIVE join(_, _)
join(parts, sep) ==
    IF parts = <<>> THEN ""
    ELSE IF Len(parts) = 1 THEN parts[1]
    ELSE parts[1] \o sep \o join(Tail(parts), sep)

\* re.findall(r'CREATE TABLE.*?\(.*?\);', s, re.IGNORECASE): i is the position
\* of the first CREATE TABLE, p that of the first "(" after it and q the
\* offset of the first ");" after p
RECURSIVE create_statements(_)
create_statements(s) ==
    LET closed(i, p, q) ==
            IF q = 0 THEN <<>>
            ELSE <<SubSeq(s, i, p + q + 1)>> \o create_statements(suffix(s, p + q + 2))
        opened(i, p) ==
            IF p = 0 THEN <<>> ELSE closed(i, i + 11 + p, find(suffix(s, i + 12 + p), ");"))
        started(i) == IF i = 0 THEN <<>> ELSE opened(i, find(suffix(s, i + 12), "("))
    IN  started(find(upper(s), "CREATE TABLE"))

\* \s+(\w+) anchored at position j: group 1, "" when there is no match
word_after(s, j) ==
    LET group(t0) == IF t0 > j THEN SubSeq(s, t0, WordEnd(s, t0) - 1) ELSE ""
    IN  IF j > Len(s) THEN "" ELSE group(SpaceEnd(s, j))

\* re.search(r'\((.*)\)', statement): group 1
column_defs(statement) ==
    SubSeq(statement, find(statement, "(") + 1,
           Max({j \in 1..Len(statement) : CharAt(statement, j) = ")"}) - 1)

\* the items of the body separated at every comma, whatever the level
split_at_every_comma(defs) ==
    LET item_before(commas, c) ==
            strip(SubSeq(defs, Max({0} \cup {b \in commas : b < c}) + 1, c - 1))
        nth(commas, n) == CHOOSE c \in commas : Cardinality({b \in commas : b <= c}) = n
        last(current_col) == IF current_col # "" THEN <<current_col>> ELSE <<>>
        columns(commas) ==
            [n \in 1..Cardinality(commas) |-> item_before(commas, nth(commas, n))]
            \o last(strip(suffix(defs, Max({0} \cup commas) + 1)))
    IN  columns({j \in 1..Len(defs) : CharAt(defs, j) = ","})

\* lines 37-56: the items of the body, separated at the commas met at
\* parenthesis level 0; paren_level(j) is the level after the character at j
split_items(defs) ==
    LET paren_level(j) ==
            Cardinality({k \in 1..j : CharAt(defs, k) = "("}) - Cardinality({k \in 1..j : CharAt(defs, k) = ")"})
        item_before(commas, c) ==
            strip(SubSeq(defs, Max({0} \cup {b \in commas : b < c}) + 1, c - 1))
        nth(commas, n) == CHOOSE c \in commas : Cardinality({b \in commas : b <= c}) = n
        last(current_col) == IF current_col # "" THEN <<current_col>> ELSE <<>>
        columns(commas) ==
            [n \in 1..Cardinality(commas) |-> item_before(commas, nth(commas, n))]
            \o last(strip(suffix(defs, Max({0} \cup commas) + 1)))
    IN  columns({j \in 1..Len(defs) : CharAt(defs, j) = "," /\ paren_level(j) = 0})

\* re.search(r'(\w+\([^)]+\))', col): group 1, "" when there is no match
type_match(col) ==
    LET group(p) ==
            SubSeq(col, Min({i \in 1..(p - 1) : \A k \in i..(p - 1) : IsWordChar(CharAt(col, k))}),
                   Min({c \in (p + 2)..Len(col) : CharAt(col, c) = ")"}))
        leftmost(opens) == IF opens = {} THEN "" ELSE group(Min(opens))
    IN  leftmost({p \in 2..(Len(col) - 2) :
                     /\ CharAt(col, p) = "("
                     /\ IsWordChar(CharAt(col, p - 1))
                     /\ CharAt(col, p + 1) # ")"
                     /\ \E c \in (p + 2)..Len(col) : CharAt(col, c) = ")"})

\* lines 78-86: the declared type of a column definition
declared_type(col, col_words) ==
    IF contains(col, "(") /\ contains(col, ")") /\ type_match(col) # ""
    THEN type_match(col)
    ELSE col_words[2]

\* s.replace(old, '') for a non-empty old
RECURSIVE remove(_, _)
remove(s, old) ==
    LET cut(i) == IF i = 0 THEN s ELSE SubSeq(s, 1, i - 1) \o remove(suffix(s, i + Len(old)), old)
    IN  cut(find(s, old))

\* \b at position i of s: between s[i - 1] and s[i]
boundary(s, i) ==
    (i > 1 /\ i - 1 <= Len(s) /\ IsWordChar(CharAt(s, i - 1))) # (i <= Len(s) /\ IsWordChar(CharAt(s, i)))

\* the keyword at position i of s, ignoring case
keyword_at(s, i, keyword) ==
    i + Len(keyword) - 1 <= Len(s) /\ upper(SubSeq(s, i, i + Len(keyword) - 1)) = keyword

\* re.search(r'\bKEYWORD\b', s, re.IGNORECASE)
has_keyword(s, keyword) ==
    \E i \in 1..Len(s) : boundary(s, i) /\ keyword_at(s, i, keyword) /\ boundary(s, i + Len(keyword))

\* re.search(r'\bFIRST\s+SECOND\b', s, re.IGNORECASE)
has_keywords(s, first, second) ==
    \E i \in 1..Len(s) :
        /\ boundary(s, i)
        /\ keyword_at(s, i, first)
        /\ SpaceEnd(s, i + Len(first)) > i + Len(first)
        /\ keyword_at(s, SpaceEnd(s, i + Len(first)), second)
        /\ boundary(s, SpaceEnd(s, i + Len(first)) + Len(second))

\* re.search(r'DEFAULT\s+([^\s,]+)', s, re.IGNORECASE): group 1, "" when no match
default_match(s) ==
    LET value(t0) ==
            SubSeq(s, t0, Min({j \in t0..(Len(s) + 1) :
                                  j = Len(s) + 1 \/ IsSpace(CharAt(s, j)) \/ CharAt(s, j) = ","}) - 1)
        leftmost(hits) == IF hits = {} THEN "" ELSE value(SpaceEnd(s, Min(hits) + 7))
    IN  leftmost({i \in 1..Len(s) :
                     /\ keyword_at(s, i, "DEFAULT")
                     /\ SpaceEnd(s, i + 7) > i + 7
                     /\ SpaceEnd(s, i + 7) <= Len(s)
                     /\ CharAt(s, SpaceEnd(s, i + 7)) # ","})

\* re.search(r'REFERENCES\s+(\w+)', s, re.IGNORECASE): group 1, "" when no match
references_match(s) ==
    LET leftmost(hits) == IF hits = {} THEN "" ELSE word_after(s, Min(hits) + 10)
    IN  leftmost({i \in 1..Len(s) : keyword_at(s, i, "REFERENCES") /\ word_after(s, i + 10) # ""})

\* lines 91-109: the constraint tokens found in the rest of a column definition
col_constraints(remaining_text) ==
    (IF has_keywords(remaining_text, "PRIMARY", "KEY") THEN <<"PRIMARY KEY">> ELSE <<>>)
    \o (IF has_keywords(remaining_text, "NOT", "NULL") THEN <<"NOT NULL">> ELSE <<>>)
    \o (IF has_keyword(remaining_text, "UNIQUE") THEN <<"UNIQUE">> ELSE <<>>)
    \o (IF \/ has_keyword(remaining_text, "AUTO_INCREMENT")
           \/ has_keyword(remaining_text, "AUTOINCREMENT")
           \/ has_keyword(remaining_text, "SERIAL")
        THEN <<"AUTO_INCREMENT">> ELSE <<>>)
    \o (IF has_keyword(remaining_text, "DEFAULT") /\ default_match(remaining_text) # ""
        THEN <<"DEFAULT " \o default_match(remaining_text)>> ELSE <<>>)
    \o (IF has_keyword(remaining_text, "CHECK") THEN <<"CHECK">> ELSE <<>>)
    \o (IF \E i \in 1..Len(remaining_text) :
              /\ boundary(remaining_text, i)
              /\ keyword_at(remaining_text, i, "REFERENCES")
              /\ word_after(remaining_text, i + 10) # ""
        THEN <<"FOREIGN KEY REFERENCES " \o references_match(remaining_text)>> ELSE <<>>)

\* lines 68-117: the entry of a column definition of at least two words
column_info(col, col_words) ==
    LET info(col_name, col_type) ==
            [name |-> col_name, type |-> col_type,
             constraints |-> col_constraints(strip(remove(remove(col, col_name), col_type)))]
    IN  info(lower(strip(col_words[1])), declared_type(col, col_words))

\* table_name in schema_details, col_name in seen_columns
already_parsed_never(name, entries) == FALSE
already_parsed(name, entries) == \E k \in DOMAIN entries : entries[k].name = name

\* lines 59-117: the columns and the table-level constraints of the items
RECURSIVE process_items(_, _, _, _)
process_items(items, i, columns_info, constraints) ==
    IF i > Len(items) THEN [columns |-> columns_info, constraints |-> constraints]
    ELSE IF startswithAny(upper(items[i]), <<"PRIMARY KEY", "FOREIGN KEY", "CONSTRAINT", "UNIQUE", "CHECK">>)
    THEN process_items(items, i + 1, columns_info, Append(constraints, items[i]))
    ELSE IF Len(words(items[i])) >= 2 /\ ~already_parsed(lower(words(items[i])[1]), columns_info)
    THEN process_items(items, i + 1, Append(columns_info, column_info(items[i], words(items[i]))), constraints)
    ELSE process_items(items, i + 1, columns_info, constraints)

\* FOREIGN\s+KEY\s*\(\s*(\w+)\s*\)\s+REFERENCES\s+(\w+) anchored at position i
TableForeignKeyAt(s, i) ==
    LET references(c0, c1, d) ==
            IF /\ c1 > c0
               /\ d <= Len(s)
               /\ CharAt(s, d) = ")"
               /\ SpaceEnd(s, d + 1) > d + 1
               /\ keyword_at(s, SpaceEnd(s, d + 1), "REFERENCES")
               /\ word_after(s, SpaceEnd(s, d + 1) + 10) # ""
            THEN [matched |-> TRUE, column |-> SubSeq(s, c0, c1 - 1),
                  table |-> word_after(s, SpaceEnd(s, d + 1) + 10)]
            ELSE NoMatch
        column(c0, c1) == references(c0, c1, SpaceEnd(s, c1))
        open(b) ==
            IF b <= Len(s) /\ CharAt(s, b) = "("
            THEN column(SpaceEnd(s, b + 1), WordEnd(s, SpaceEnd(s, b + 1)))
            ELSE NoMatch
        key(a) == IF a > i + 7 /\ keyword_at(s, a, "KEY") THEN open(SpaceEnd(s, a + 3)) ELSE NoMatch
    IN  IF keyword_at(s, i, "FOREIGN") THEN key(SpaceEnd(s, i + 7)) ELSE NoMatch

\* re.search of the table-level foreign key pattern, re.IGNORECASE
search_table_foreign_key(s) ==
    LET leftmost(hits) == IF hits = {} THEN NoMatch ELSE TableForeignKeyAt(s, Min(hits))
    IN  leftmost({i \in 1..Len(s) : TableForeignKeyAt(s, i).matched})

\* lines 120-130: the table-level foreign keys, added to the columns they name
RECURSIVE apply_foreign_keys(_, _, _)
apply_foreign_keys(columns_info, constraints, i) ==
    LET with_key(fk_match) ==
            IF ~fk_match.matched THEN columns_info
            ELSE [k \in DOMAIN columns_info |->
                     IF /\ columns_info[k].name = lower(fk_match.column)
                        /\ ~contains(join(columns_info[k].constraints, " "), "FOREIGN KEY")
                     THEN [columns_info[k] EXCEPT
                              !.constraints = Append(@, "FOREIGN KEY REFERENCES " \o lower(fk_match.table))]
                     ELSE columns_info[k]]
    IN  IF i > Len(constraints) THEN columns_info
        ELSE apply_foreign_keys(with_key(search_table_foreign_key(constraints[i])), constraints, i + 1)

\* lines 18-135: the loop over the statements
RECURSIVE parse_statements(_, _, _)
parse_statements(statements, i, schema_details) ==
    LET table(table_name, processed) ==
            [name |-> table_name,
             columns |-> apply_foreign_keys(processed.columns, processed.constraints, 1),
             constraints |-> processed.constraints]
        parsed(table_name) ==
            IF table_name = "" \/ already_parsed(table_name, schema_details) THEN schema_details
            ELSE Append(schema_details,
                        table(table_name,
                              process_items(split_items(column_defs(statements[i])), 1, <<>>, <<>>)))
    IN  IF i > Len(statements) THEN schema_details
        ELSE parse_statements(statements, i + 1, parsed(lower(word_after(statements[i], 13))))

\* parse_sql_file on the text of the file
parse_sql_file(sql_content) ==
    parse_statements(create_statements(join(words(remove_comments(sql_content)), " ")), 1, <<>>)

(***************************************************************************)
(* Evaluation requests.  The candidates are the schemas of at most          *)
(* MaxTables tables over a catalogue, in catalogue order; the reference     *)
(* and the domain come with the request.                                    *)
(***************************************************************************)
MaxTables == 2
MaxClock == 1

Catalogue ==
    <<
    Table("fact_sales", <<Col("sales_key", "BIGINT", <<"PRIMARY KEY">>),
                          Col("customer_key", "BIGINT", <<"FOREIGN KEY REFERENCES dim_customer">>),
                          Col("total_amount", "DECIMAL(10,2)", <<"NOT NULL">>),
                          Col("created_at", "TIMESTAMP", <<>>)>>),
    Table("dim_customer", <<Col("customer_key", "BIGINT", <<"PRIMARY KEY">>),
                            Col("name", "VARCHAR(100)", <<"NOT NULL">>),
                            Col("effective_date", "DATE", <<>>)>>),
    Table("dim_date", <<Col("date_key", "INTEGER", <<"PRIMARY KEY">>),
                        Col("year", "INT", <<>>),
                        Col("month", "INT", <<>>)>>),
    \* a column whose REFERENCES token names no table
    Table("dangling", <<Col("x", "INT", <<"FOREIGN KEY REFERENCES">>)>>)>>

CandidateSchemas ==
    {Pick(Catalogue, idx, 1) : idx \in {x \in SUBSET (1..Len(Catalogue)) : Cardinality(x) <= MaxTables}}

Requests ==
    {[original_schema |-> <<>>, domain |-> "Healthcare"],
     [original_schema |->
         <<Table("customers", <<Col("id", "INT", <<>>), Col("name", "VARCHAR(100)", <<>>)>>),
           Table("orders", <<Col("id", "INT", <<"PRIMARY KEY">>),
                           Col("customer_id", "INT", <<"FOREIGN KEY REFERENCES customers">>),
                           Col("order_date", "DATE", <<>>)>>)>>,
      domain |-> "E-commerce"]}

NoResults == [raised |-> "none"]

VARIABLES original_schema, warehouse_schema, ai_enhanced_schema, domain, clock, results, pc,
          sql_content, schema_details, missing_tables, missing_columns,
          evaluation_framework, calls, user_databases, response

vars == <<original_schema, warehouse_schema, ai_enhanced_schema, domain, clock, results, pc,
          sql_content, schema_details, missing_tables, missing_columns,
          evaluation_framework, calls, user_databases, response>>

NoResponse == [status_code |-> 0]

\* the state of the service around the pipeline: the module-level evaluator,
\* the evaluations in progress on it, the stored UserDatabase records and the
\* last response
service == <<evaluation_framework, calls, user_databases, response>>

\* no evaluation in progress, no stored record, no response yet
IdleService ==
    /\ evaluation_framework = SchemaEvaluationFramework
    /\ calls = <<>>
    /\ user_databases = {}
    /\ response = NoResponse

\* the state of the synthesis, untouched by an evaluation
synthesis == <<sql_content, schema_details, missing_tables, missing_columns>>
\* the state of the evaluation, untouched by a synthesis
evaluation == <<original_schema, ai_enhanced_schema, clock, results>>

InitEval ==
    /\ \E rq \in Requests : original_schema = rq.original_schema /\ domain = rq.domain
    /\ warehouse_schema \in CandidateSchemas
    /\ ai_enhanced_schema \in CandidateSchemas
    /\ clock = 0
    /\ results = NoResults
    /\ pc = "ready"
    /\ sql_content = ""
    /\ schema_details = <<>>
    /\ missing_tables = <<>>
    /\ missing_columns = <<>>
    /\ IdleService

\* time passes before the request is served
Tick ==
    /\ pc = "ready"
    /\ clock < MaxClock
    /\ clock' = clock + 1
    /\ UNCHANGED <<original_schema, warehouse_schema, ai_enhanced_schema, domain, results, pc>>
    /\ UNCHANGED synthesis
    /\ UNCHANGED service

\* SchemaEvaluationFramework.evaluate_schemas on the request
EvaluateSchemas ==
    /\ pc = "ready"
    /\ results' = evaluate_schemas(original_schema, warehouse_schema, ai_enhanced_schema, domain, clock)
    /\ pc' = IF results' = Raise(IndexError) THEN "raised" ELSE "done"
    /\ UNCHANGED <<original_schema, warehouse_schema, ai_enhanced_schema, domain, clock>>
    /\ UNCHANGED synthesis
    /\ UNCHANGED service

NextEval == Tick \/ EvaluateSchemas

SpecEval == InitEval /\ [][NextEval]_vars

(***************************************************************************)
(* Uploads.  A source schema is at most MaxTables tables of a catalogue of  *)
(* parsed tables, in file order; the upload handler synthesizes the         *)
(* warehouse and analyses its gaps, and the analysis can be run again on    *)
(* the warehouse for any domain.                                            *)
(***************************************************************************)
SourceCatalogue ==
    <<
      SourceTable("customers",
          <<Col("cust_id", "INT", "PRIMARY KEY"), Col("first_name", "VARCHAR(50)", "NOT NULL"),
            Col("last_name", "VARCHAR(50)", ""), Col("email", "VARCHAR(100)", "UNIQUE")>>, <<>>),
      SourceTable("products",
          <<Col("id", "INT", "PRIMARY KEY"), Col("name", "VARCHAR(100)", "NOT NULL"),
            Col("price", "DECIMAL(10,2)", "")>>, <<>>),
      \* two targets, one declared on the column and one at table level,
      SourceTable("orders",
          <<Col("id", "INT", "PRIMARY KEY"),
            Col("customer_id", "INT", "NOT NULL REFERENCES customers(cust_id)"),
            Col("product_id", "INT", ""), Col("qty", "INT", "")>>,
          <<"FOREIGN KEY (product_id) REFERENCES products(id)">>),
      \* one target, declared once on a column and once at table level,
      SourceTable("invoices",
          <<Col("id", "INT", "PRIMARY KEY"),
            Col("customer_id", "INT", "REFERENCES customers(cust_id)"),
            Col("payer_id", "INT", ""), Col("total", "DECIMAL(10,2)", "")>>,
          <<"FOREIGN KEY (payer_id) REFERENCES customers(cust_id)">>),
      \* two targets, both declared at table level,
      SourceTable("order_items",
          <<Col("order_id", "INT", ""), Col("product_id", "INT", ""), Col("quantity", "INT", "")>>,
          <<"PRIMARY KEY (order_id, product_id)",
            "FOREIGN KEY (order_id) REFERENCES orders(id)",
            "foreign key (product_id) references products (id)">>),
      \* one target,
      SourceTable("reviews",
          <<Col("id", "INT", "PRIMARY KEY"), Col("product_id", "INT", "REFERENCES products(id)"),
            Col("created_on", "DATE", "")>>, <<>>)>>

SourceSchemas ==
    {Pick(SourceCatalogue, idx, 1) :
        idx \in {x \in SUBSET (1..Len(SourceCatalogue)) : Cardinality(x) <= MaxTables}}

\* two domains with a template and one without
Domains == {"E-commerce", "Supply Chain", "Retail"}

NoWarehouse == [fact_tables |-> <<>>, dimension_tables |-> <<>>]

InitSynth ==
    /\ sql_content = ""
    /\ schema_details \in SourceSchemas
    /\ domain \in Domains
    /\ warehouse_schema = NoWarehouse
    /\ missing_tables = <<>>
    /\ missing_columns = <<>>
    /\ pc = "parsed"
    /\ original_schema = <<>>
    /\ ai_enhanced_schema = <<>>
    /\ clock = 0
    /\ results = NoResults
    /\ IdleService

\* upload_schema: generate_warehouse_schema on the parsed source schema, then
\* the annotation of the warehouse tables with pk_columns and fk_columns; an
\* exception of the synthesizer ends the handler
GenerateWarehouseSchema ==
    /\ pc = "parsed"
    /\ LET generated == generate_warehouse_schema(schema_details, domain)
       IN  IF generated = Raise(AttributeError)
           THEN /\ pc' = "raised"
                /\ UNCHANGED <<warehouse_schema, missing_tables, missing_columns>>
           ELSE /\ warehouse_schema' = annotate_key_columns(generated.warehouse_schema)
                /\ missing_tables' = generated.missing_tables
                /\ missing_columns' = generated.missing_columns
                /\ pc' = "generated"
    /\ UNCHANGED <<sql_content, schema_details, domain>>
    /\ UNCHANGED evaluation
    /\ UNCHANGED service

\* enhance_schema_with_domain on the warehouse, for any domain
EnhanceSchemaWithDomain ==
    /\ pc \in {"generated", "analysed"}
    /\ \E d \in Domains :
          LET enhanced == enhance_schema_with_domain(warehouse_schema, d)
          IN  /\ warehouse_schema' = enhanced.warehouse_schema
              /\ missing_tables' = enhanced.missing_tables
              /\ missing_columns' = enhanced.missing_columns
              /\ domain' = d
    /\ pc' = "analysed"
    /\ UNCHANGED <<sql_content, schema_details>>
    /\ UNCHANGED evaluation
    /\ UNCHANGED service

NextSynth == GenerateWarehouseSchema \/ EnhanceSchemaWithDomain

SpecSynth == InitSynth /\ [][NextSynth]_vars

(***************************************************************************)
(* Uploaded files: the statements of a file, one per line.                  *)
(***************************************************************************)
MaxStatements == 2

WellFormedStatements ==
    {"CREATE TABLE Users (id INT PRIMARY KEY, name VARCHAR(50) NOT NULL, ID BIGINT);",
     "create table USERS (email TEXT UNIQUE);",
     "CREATE TABLE orders (id SERIAL, user_id INT REFERENCES Users(id), total DECIMAL(10,2) DEFAULT 0, PRIMARY KEY (id));",
     "-- line items\nCREATE TABLE items (order_id INT, qty INT CHECK (qty > 0), FOREIGN KEY (order_id) REFERENCES Orders(id));",
     "CREATE TABLE bar (id INT PRIMARY KEY, name TEXT);"}

\* statements without a column list, with an unbalanced column list, or
\* without a table name
MalformedStatements ==
    {"CREATE TABLE foo id INT;",
     "CREATE TABLE t (a INT, b DECIMAL(10,2;",
     "CREATE TABLE u (a INT));",
     "CREATE TABLE (x INT);"}

\* the files of at most n statements, and at least one
RECURSIVE FilesOf(_)
FilesOf(n) ==
    IF n = 1 THEN WellFormedStatements \cup MalformedStatements
    ELSE FilesOf(n - 1)
         \cup {f \o "\n" \o st : f \in FilesOf(n - 1), st \in WellFormedStatements \cup MalformedStatements}

SqlFiles == {""} \cup FilesOf(MaxStatements)

InitParse ==
    /\ sql_content \in SqlFiles
    /\ schema_details = <<>>
    /\ pc = "uploaded"
    /\ domain = ""
    /\ warehouse_schema = NoWarehouse
    /\ missing_tables = <<>>
    /\ missing_columns = <<>>
    /\ original_schema = <<>>
    /\ ai_enhanced_schema = <<>>
    /\ clock = 0
    /\ results = NoResults
    /\ IdleService

\* upload_schema: parse_sql_file on the uploaded file
ParseSqlFile ==
    /\ pc = "uploaded"
    /\ schema_details' = parse_sql_file(sql_content)
    /\ pc' = "parsed"
    /\ UNCHANGED <<sql_content, domain, warehouse_schema, missing_tables, missing_columns>>
    /\ UNCHANGED evaluation
    /\ UNCHANGED service

NextParse == ParseSqlFile

SpecParse == InitParse /\ [][NextParse]_vars

(***************************************************************************)
(* Analyses of a warehouse handed to the gap analyzer: at most MaxTables    *)
(* dimension tables and at most one fact table of a catalogue.              *)
(***************************************************************************)
GivenDimensions ==
    <<[name |-> "client",
       columns |-> <<[name |-> "id", type |-> "INT"], [name |-> "name", type |-> "VARCHAR(100)"]>>,
       primary_keys |-> {"id"}, foreign_keys |-> <<>>],
      [name |-> "Customers",
       columns |-> <<[name |-> "customer_id", type |-> "INT"], [name |-> "full_name", type |-> "VARCHAR(100)"],
                     [name |-> "Email", type |-> "VARCHAR(100)"]>>,
       primary_keys |-> {"customer_id"}, foreign_keys |-> <<>>],
      [name |-> "products",
       columns |-> <<[name |-> "product_id", type |-> "INT"], [name |-> "price", type |-> "DECIMAL(10,2)"]>>,
       primary_keys |-> {"product_id"}, foreign_keys |-> <<>>],
      [name |-> "warehouses",
       columns |-> <<[name |-> "warehouse_id", type |-> "INT"]>>,
       primary_keys |-> {}, foreign_keys |-> <<>>]>>

GivenFacts ==
    <<[name |-> "sales",
       columns |-> <<[name |-> "sale_id", type |-> "INT"], [name |-> "customer_id", type |-> "INT"],
                     [name |-> "product_id", type |-> "INT"], [name |-> "quantity", type |-> "INT"]>>,
       primary_keys |-> {"sale_id"},
       foreign_keys |-> <<ForeignKey("customer_id", "Customers", "customer_id"),
                          ForeignKey("product_id", "products", "product_id")>>]>>

GivenWarehouses ==
    {[fact_tables |-> Pick(GivenFacts, f, 1), dimension_tables |-> Pick(GivenDimensions, d, 1)] :
        f \in SUBSET (1..Len(GivenFacts)),
        d \in {x \in SUBSET (1..Len(GivenDimensions)) : Cardinality(x) <= MaxTables}}

InitAnalyse ==
    /\ warehouse_schema \in GivenWarehouses
    /\ domain \in Domains
    /\ pc = "given"
    /\ sql_content = ""
    /\ schema_details = <<>>
    /\ missing_tables = <<>>
    /\ missing_columns = <<>>
    /\ original_schema = <<>>
    /\ ai_enhanced_schema = <<>>
    /\ clock = 0
    /\ results = NoResults
    /\ IdleService

\* enhance_schema_with_domain on the given warehouse, for its domain
AnalyseWarehouse ==
    /\ pc = "given"
    /\ LET enhanced == enhance_schema_with_domain(warehouse_schema, domain)
       IN  /\ warehouse_schema' = enhanced.warehouse_schema
           /\ missing_tables' = enhanced.missing_tables
           /\ missing_columns' = enhanced.missing_columns
    /\ pc' = "analysed"
    /\ UNCHANGED <<sql_content, schema_details, domain>>
    /\ UNCHANGED evaluation
    /\ UNCHANGED service

NextAnalyse == AnalyseWarehouse \/ EnhanceSchemaWithDomain

SpecAnalyse == InitAnalyse /\ [][NextAnalyse]_vars

(***************************************************************************)
(* Evaluation requests on candidates of two tables, the first referencing   *)
(* the second, with or without a reference back.                            *)
(***************************************************************************)
CycleNames == {<<"A", "B">>, <<"a", "b">>, <<"Orders", "Customers">>, <<"FACT_A", "DIM_B">>}

CycleSchema(a, b, cyclic) ==
    <<Table(a, <<Col("id", "INT", <<"PRIMARY KEY">>),
                 Col("b_id", "INT", <<"FOREIGN KEY REFERENCES " \o b>>)>>),
      Table(b, <<Col("id", "INT", <<"PRIMARY KEY">>),
                 Col("a_id", "INT", IF cyclic THEN <<"FOREIGN KEY REFERENCES " \o a>> ELSE <<>>)>>)>>

CycleSchemas == {CycleSchema(n[1], n[2], cyclic) : n \in CycleNames, cyclic \in BOOLEAN}

InitCycle ==
    /\ \E rq \in Requests : original_schema = rq.original_schema /\ domain = rq.domain
    /\ warehouse_schema \in CycleSchemas
    /\ ai_enhanced_schema \in CycleSchemas
    /\ clock = 0
    /\ results = NoResults
    /\ pc = "ready"
    /\ sql_content = ""
    /\ schema_details = <<>>
    /\ missing_tables = <<>>
    /\ missing_columns = <<>>
    /\ IdleService

SpecCycle == InitCycle /\ [][NextEval]_vars

(***************************************************************************)
(* Evaluation requests that contrast candidates without keys (degenerate    *)
(* ones included) with star schemas.                                        *)
(***************************************************************************)
\* candidates without a primary key or a foreign key: no table, a table
\* without columns, and tables of plain columns
PlainSchemas ==
    {<<>>,
     <<Table("misc", <<>>)>>,
     <<Table("customers", <<Col("id", "INT", <<>>), Col("name", "VARCHAR(100)", <<>>)>>)>>,
     <<Table("patient", <<Col("patient_id", "INT", <<"NOT NULL">>),
                          Col("patient_name", "VARCHAR(100)", <<"NOT NULL">>),
                          Col("visit_date", "DATE", <<"NOT NULL">>)>>),
       Table("doctor", <<Col("doctor_id", "INT", <<"NOT NULL">>),
                         Col("doctor_name", "VARCHAR(10)", <<"NOT NULL">>)>>)>>}

\* the audit columns of a warehouse table
AuditColumns == <<Col("created_at", "TIMESTAMP", <<>>), Col("updated_at", "TIMESTAMP", <<>>)>>

\* candidates of fact_ and dim_ tables with primary keys, foreign keys
\* and audit columns
StarSchemas ==
    {<<Table("fact_sales", <<Col("sales_key", "BIGINT", <<"PRIMARY KEY">>),
                             Col("customer_key", "BIGINT", <<"FOREIGN KEY REFERENCES dim_customer">>),
                             Col("date_key", "INTEGER", <<"FOREIGN KEY REFERENCES dim_date">>),
                             Col("total_amount", "DECIMAL(10,2)", <<"NOT NULL">>)>> \o AuditColumns),
       Table("dim_customer", <<Col("customer_key", "BIGINT", <<"PRIMARY KEY">>),
                               Col("name", "VARCHAR(100)", <<"NOT NULL">>)>> \o AuditColumns),
       Table("dim_date", <<Col("date_key", "INTEGER", <<"PRIMARY KEY">>),
                           Col("year", "INT", <<>>), Col("month", "INT", <<>>)>> \o AuditColumns)>>,
     <<Table("fact_x", <<Col("id", "INT", <<"PRIMARY KEY">>),
                         Col("d", "INT", <<"FOREIGN KEY REFERENCES dim_y">>)>> \o AuditColumns),
       Table("dim_y", <<Col("id", "INT", <<"PRIMARY KEY">>)>> \o AuditColumns)>>,
     <<Table("fact_visits", <<Col("visit_key", "BIGINT", <<"PRIMARY KEY">>),
                              Col("patient_key", "BIGINT", <<"FOREIGN KEY REFERENCES dim_patient">>)>>
                            \o AuditColumns),
       Table("dim_patient", <<Col("patient_key", "BIGINT", <<"PRIMARY KEY">>),
                              Col("patient_name", "VARCHAR(100)", <<>>)>> \o AuditColumns)>>}

\* the requests, and one whose reference is a table without columns
ContrastRequests ==
    Requests \cup {[original_schema |-> <<Table("misc", <<>>)>>, domain |-> "Retail"]}

InitContrast ==
    /\ \E rq \in ContrastRequests : original_schema = rq.original_schema /\ domain = rq.domain
    /\ warehouse_schema \in PlainSchemas \cup StarSchemas
    /\ ai_enhanced_schema \in PlainSchemas \cup StarSchemas
    /\ clock = 0
    /\ results = NoResults
    /\ pc = "ready"
    /\ sql_content = ""
    /\ schema_details = <<>>
    /\ missing_tables = <<>>
    /\ missing_columns = <<>>
    /\ IdleService

SpecContrast == InitContrast /\ [][NextEval]_vars

(***************************************************************************)
(* Uploads whose columns carry their constraints as a list of tokens, and   *)
(* the same uploads with each list joined into one string.                  *)
(***************************************************************************)
TokenCatalogue ==
    <<SourceTable("customers",
          <<TokenCol("cust_id", "INT", <<"PRIMARY KEY">>), TokenCol("email", "VARCHAR(100)", <<"UNIQUE">>)>>, <<>>),
      SourceTable("products",
          <<TokenCol("id", "INT", <<"PRIMARY KEY">>), TokenCol("name", "VARCHAR(100)", <<"NOT NULL">>)>>, <<>>),
      SourceTable("orders",
          <<TokenCol("id", "INT", <<"PRIMARY KEY">>),
            TokenCol("customer_id", "INT", <<"NOT NULL", "FOREIGN KEY REFERENCES customers(cust_id)">>),
            TokenCol("product_id", "INT", <<"FOREIGN KEY REFERENCES products(id)">>)>>, <<>>),
      SourceTable("reviews",
          <<TokenCol("id", "INT", <<"PRIMARY KEY">>),
            TokenCol("product_id", "INT", <<"FOREIGN KEY REFERENCES products(id)">>),
            TokenCol("stars", "INT", <<>>)>>, <<>>)>>

TokenSchemas ==
    {Pick(TokenCatalogue, idx, 1) :
        idx \in {x \in SUBSET (1..Len(TokenCatalogue)) : 1 <= Cardinality(x) /\ Cardinality(x) <= MaxTables}}

\* the schema with each list of tokens given as the single combined string
combined(details) ==
    [i \in DOMAIN details |->
        SourceTable(details[i].name,
                    [k \in DOMAIN details[i].columns |->
                        Col(details[i].columns[k].name, details[i].columns[k].type,
                            join(details[i].columns[k].constraints, " "))],
                    details[i].constraints)]

InitForms ==
    /\ sql_content = ""
    /\ schema_details \in TokenSchemas \cup {combined(s) : s \in TokenSchemas}
    /\ domain \in Domains
    /\ warehouse_schema = NoWarehouse
    /\ missing_tables = <<>>
    /\ missing_columns = <<>>
    /\ pc = "parsed"
    /\ original_schema = <<>>
    /\ ai_enhanced_schema = <<>>
    /\ clock = 0
    /\ results = NoResults
    /\ IdleService

SpecForms == InitForms /\ [][NextSynth]_vars

(***************************************************************************)
(* Concurrent evaluations.  Every request handler calls evaluate_schemas    *)
(* on the one module-level evaluation_framework; a call is a thread with    *)
(* its own arguments and locals, and the threads interleave between the     *)
(* two evaluations of a call and the assembly of its results.               *)
(***************************************************************************)
MaxCalls == 2

\* no stage of the pipeline is in progress
IdlePipeline ==
    /\ original_schema = <<>>
    /\ warehouse_schema = <<>>
    /\ ai_enhanced_schema = <<>>
    /\ domain = ""
    /\ clock = 0
    /\ results = NoResults
    /\ pc = "idle"
    /\ sql_content = ""
    /\ schema_details = <<>>
    /\ missing_tables = <<>>
    /\ missing_columns = <<>>

Arguments(o, w, a, d) ==
    [original_schema |-> o, warehouse_schema |-> w, ai_enhanced_schema |-> a, domain |-> d]

\* the arguments of the calls
ConcurrentArguments ==
    {Arguments(<<>>, <<Table("customers", <<Col("id", "INT", <<>>), Col("name", "VARCHAR(100)", <<>>)>>)>>,
               <<Table("dim_date", <<Col("date_key", "INTEGER", <<"PRIMARY KEY">>), Col("year", "INT", <<>>)>>)>>,
               "Retail"),
     Arguments(<<Table("customers", <<Col("id", "INT", <<>>), Col("name", "VARCHAR(100)", <<>>)>>)>>,
               <<Table("fact_x", <<Col("id", "INT", <<"PRIMARY KEY">>),
                                   Col("d", "INT", <<"FOREIGN KEY REFERENCES dim_y">>)>>),
                 Table("dim_y", <<Col("id", "INT", <<"PRIMARY KEY">>)>>)>>,
               <<Table("customers", <<Col("id", "INT", <<"PRIMARY KEY">>), Col("name", "VARCHAR(100)", <<>>)>>)>>,
               "E-commerce"),
     Arguments(<<>>, <<>>, <<Table("misc", <<>>)>>, "Healthcare")}

\* a thread about to call evaluate_schemas
NewCall(arguments) ==
    [pc |-> "ready", arguments |-> arguments, evaluation_timestamp |-> 0,
     warehouse_schema_evaluation |-> NoResults, ai_enhanced_schema_evaluation |-> NoResults,
     results |-> NoResults]

\* the instance with the weights of two algorithms exchanged
self_reweighted(self) == [self EXCEPT !.weights = weights_exchanged]

\* the instance after a method of the evaluation has run on it: the methods
\* read self.weights and assign no attribute of self
self_after(self) == self

InitConcurrent ==
    /\ IdlePipeline
    /\ evaluation_framework = SchemaEvaluationFramework
    /\ calls \in [1..MaxCalls -> {NewCall(arguments) : arguments \in ConcurrentArguments}]
    /\ user_databases = {}
    /\ response = NoResponse

\* lines 55-61: the timestamp, and _evaluate_single_schema on the warehouse
EvaluateWarehouse(c) ==
    /\ calls[c].pc = "ready"
    /\ calls' = [calls EXCEPT
                    ![c].evaluation_timestamp = clock,
                    ![c].warehouse_schema_evaluation =
                        evaluate_single_schema_of(evaluation_framework, calls[c].arguments.warehouse_schema,
                                                  calls[c].arguments.original_schema,
                                                  calls[c].arguments.domain, "warehouse"),
                    ![c].pc = "warehouse_evaluated"]
    /\ evaluation_framework' = self_after(evaluation_framework)
    /\ UNCHANGED <<original_schema, warehouse_schema, ai_enhanced_schema, domain, clock, results, pc>>
    /\ UNCHANGED synthesis
    /\ UNCHANGED <<user_databases, response>>

\* lines 62-64: _evaluate_single_schema on the ai_enhanced schema
EvaluateAiEnhanced(c) ==
    /\ calls[c].pc = "warehouse_evaluated"
    /\ calls' = [calls EXCEPT
                    ![c].ai_enhanced_schema_evaluation =
                        evaluate_single_schema_of(evaluation_framework, calls[c].arguments.ai_enhanced_schema,
                                                  calls[c].arguments.original_schema,
                                                  calls[c].arguments.domain, "ai_enhanced"),
                    ![c].pc = "ai_enhanced_evaluated"]
    /\ evaluation_framework' = self_after(evaluation_framework)
    /\ UNCHANGED <<original_schema, warehouse_schema, ai_enhanced_schema, domain, clock, results, pc>>
    /\ UNCHANGED synthesis
    /\ UNCHANGED <<user_databases, response>>

\* lines 65-89: the comparison, the recommendations and the returned record
ReturnResults(c) ==
    /\ calls[c].pc = "ai_enhanced_evaluated"
    /\ calls' = [calls EXCEPT
                    ![c].results =
                        evaluation_results(calls[c].warehouse_schema_evaluation,
                                           calls[c].ai_enhanced_schema_evaluation,
                                           compare_schemas(calls[c].arguments.warehouse_schema,
                                                           calls[c].arguments.ai_enhanced_schema),
                                           generate_recommendations(calls[c].arguments.warehouse_schema,
                                                                    calls[c].arguments.ai_enhanced_schema,
                                                                    calls[c].arguments.domain),
                                           calls[c].arguments.domain, calls[c].evaluation_timestamp),
                    ![c].pc = "done"]
    /\ evaluation_framework' = self_after(evaluation_framework)
    /\ UNCHANGED <<original_schema, warehouse_schema, ai_enhanced_schema, domain, clock, results, pc>>
    /\ UNCHANGED synthesis
    /\ UNCHANGED <<user_databases, response>>

NextConcurrent ==
    \E c \in 1..MaxCalls : EvaluateWarehouse(c) \/ EvaluateAiEnhanced(c) \/ ReturnResults(c)

SpecConcurrent == InitConcurrent /\ [][NextConcurrent]_vars

(***************************************************************************)
(* Stored schemas.  A UserDatabase record has an id and the user who owns   *)
(* it; DELETE dashboard/schemas/<schema_id>/ is served by                   *)
(* SchemaDetailView.delete.                                                 *)
(***************************************************************************)
MaxSchemas == 3

Users == {"alice", "bob"}
\* the requester of a request without credentials
AnonymousUser == "AnonymousUser"

UserDatabase(i, u) == [id |-> i, user |-> u]

\* permission_classes = [IsAuthenticated]
IsAuthenticated(user) == user # AnonymousUser

\* UserDatabase.objects.get(id=schema_id) without the filter on the user
objects_get_by_id(objects, schema_id, user) == {r \in objects : r.id = schema_id}

\* UserDatabase.objects.get(id=schema_id, user=request.user): the record, or
\* none (DoesNotExist)
objects_get(objects, schema_id, user) == {r \in objects : r.id = schema_id /\ r.user = user}

InitStore ==
    /\ IdlePipeline
    /\ evaluation_framework = SchemaEvaluationFramework
    /\ calls = <<>>
    /\ \E owner \in [1..MaxSchemas -> Users] :
          user_databases = {UserDatabase(i, owner[i]) : i \in 1..MaxSchemas}
    /\ response = NoResponse

\* SchemaDetailView.delete for a request of user on schema_id; the response
\* is kept with the request it answers
DeleteSchema(user, schema_id) ==
    LET request == [method |-> "DELETE", user |-> user, schema_id |-> schema_id]
        schema == objects_get(user_databases, schema_id, user)
    IN  /\ IF ~IsAuthenticated(user)
           THEN /\ response' = [status_code |-> 401, request |-> request]
                /\ UNCHANGED user_databases
           ELSE IF schema = {}
           THEN /\ response' = [status_code |-> 404, request |-> request]
                /\ UNCHANGED user_databases
           ELSE /\ user_databases' = user_databases \ schema
                /\ response' = [status_code |-> 204, request |-> request]
        /\ UNCHANGED <<original_schema, warehouse_schema, ai_enhanced_schema, domain, clock, results, pc>>
        /\ UNCHANGED synthesis
        /\ UNCHANGED <<evaluation_framework, calls>>

\* schema ids of stored records and one id that was never stored
NextStore ==
    \E user \in Users \cup {AnonymousUser} : \E schema_id \in 1..(MaxSchemas + 1) : DeleteSchema(user, schema_id)

SpecStore == InitStore /\ [][NextStore]_vars

(***************************************************************************)
(* Uploaded files of one statement whose body is a list of at most          *)
(* MaxItems items.                                                          *)
(***************************************************************************)
MaxItems == 3

\* column definitions with and without parentheses, one of them named with
\* a keyword as a prefix, and a multi-column key
ItemTexts ==
    {"a INT",
     "price DECIMAL(10,2)",
     "unique_code VARCHAR(10) NOT NULL",
     "qty INT CHECK (qty IN (1, 2))",
     "PRIMARY KEY (a, b)"}

RECURSIVE BodiesOf(_)
BodiesOf(n) ==
    IF n = 1 THEN ItemTexts
    ELSE BodiesOf(n - 1) \cup {body \o ", " \o item : body \in BodiesOf(n - 1), item \in ItemTexts}

StatementOf(body) == "CREATE TABLE t (" \o body \o ");"

InitItems ==
    /\ sql_content \in {StatementOf(body) : body \in BodiesOf(MaxItems)}
    /\ schema_details = <<>>
    /\ pc = "uploaded"
    /\ domain = ""
    /\ warehouse_schema = NoWarehouse
    /\ missing_tables = <<>>
    /\ missing_columns = <<>>
    /\ original_schema = <<>>
    /\ ai_enhanced_schema = <<>>
    /\ clock = 0
    /\ results = NoResults
    /\ IdleService

SpecItems == InitItems /\ [][NextParse]_vars

(***************************************************************************)
(* Reference graphs.  A schema of MaxNodes tables in which each table       *)
(* references any of the others, and the first one possibly a name that is  *)
(* no table; _check_circular_references is applied to it.                   *)
(***************************************************************************)
MaxNodes == 3

NodeNames == <<"A", "B", "C", "D", "E">>
Nodes == {NodeNames[i] : i \in 1..MaxNodes}

\* the references a graph may have: no table references itself
PossibleEdges ==
    {e \in Nodes \X (Nodes \cup {"X"}) : e[1] # e[2] /\ (e[2] = "X" => e[1] = "A")}

Reverse(seq) == [k \in 1..Len(seq) |-> seq[Len(seq) + 1 - k]]

\* the schema of a graph: one column per reference, in the order of the
\* names or in the reverse order
GraphSchema(edges, reversed) ==
    LET targets(n) == Pick(NodeNames \o <<"X">>, {j \in 1..6 : <<n, (NodeNames \o <<"X">>)[j]>> \in edges}, 1)
        ordered(seq) == IF reversed THEN Reverse(seq) ELSE seq
        columns(refs) ==
            [k \in DOMAIN refs |-> Col("ref" \o refs[k], "INT", <<"FOREIGN KEY REFERENCES " \o refs[k]>>)]
        tables == [i \in 1..MaxNodes |-> Table(NodeNames[i], columns(ordered(targets(NodeNames[i]))))]
    IN  ordered(tables)

InitGraph ==
    /\ \E edges \in SUBSET PossibleEdges : \E reversed \in BOOLEAN :
          warehouse_schema = GraphSchema(edges, reversed)
    /\ original_schema = <<>>
    /\ ai_enhanced_schema = <<>>
    /\ domain = ""
    /\ clock = 0
    /\ results = NoResults
    /\ pc = "ready"
    /\ sql_content = ""
    /\ schema_details = <<>>
    /\ missing_tables = <<>>
    /\ missing_columns = <<>>
    /\ IdleService

\* _check_circular_references on the schema
CheckCircularReferences ==
    /\ pc = "ready"
    /\ results' = [circular_ref_score |-> check_circular_references(warehouse_schema)]
    /\ pc' = "done"
    /\ UNCHANGED <<original_schema, warehouse_schema, ai_enhanced_schema, domain, clock>>
    /\ UNCHANGED synthesis
    /\ UNCHANGED service

NextGraph == CheckCircularReferences

SpecGraph == InitGraph /\ [][NextGraph]_vars

(***************************************************************************)
(* Uploads of tables whose column names meet COLUMN_VARIATIONS: names that  *)
(* are variations of one standard name, and first_name and last_name next   *)
(* to a full_name.                                                          *)
(***************************************************************************)
NameCatalogue ==
    <<
      SourceTable("contacts",
          <<Col("cust_id", "INT", "PRIMARY KEY"), Col("customer_id", "INT", ""),
            Col("email", "VARCHAR(100)", "")>>, <<>>),
      SourceTable("people",
          <<Col("first_name", "VARCHAR(50)", ""), Col("last_name", "VARCHAR(50)", ""),
            Col("full_name", "VARCHAR(100)", "")>>, <<>>),
      SourceTable("line_items",
          <<Col("ord_id", "INT", "REFERENCES orders(id)"), Col("prod_id", "INT", "REFERENCES products(id)"),
            Col("qty", "INT", ""), Col("amount", "INT", "")>>,
          <<"PRIMARY KEY (ord_id, prod_id)">>),
      SourceTable("customers",
          <<Col("id", "INT", "PRIMARY KEY"), Col("first_name", "VARCHAR(50)", "NOT NULL"),
            Col("last_name", "VARCHAR(50)", ""), Col("email", "VARCHAR(100)", "UNIQUE")>>, <<>>),
      SourceTable("products",
          <<Col("id", "INT", "PRIMARY KEY"), Col("title", "VARCHAR(100)", "NOT NULL"),
            Col("price", "DECIMAL(10,2)", "")>>, <<>>)>>

NameSchemas ==
    {Pick(NameCatalogue, idx, 1) :
        idx \in {x \in SUBSET (1..Len(NameCatalogue)) : Cardinality(x) <= MaxTables}}

InitNames ==
    /\ sql_content = ""
    /\ schema_details \in NameSchemas
    /\ domain \in Domains
    /\ warehouse_schema = NoWarehouse
    /\ missing_tables = <<>>
    /\ missing_columns = <<>>
    /\ pc = "parsed"
    /\ original_schema = <<>>
    /\ ai_enhanced_schema = <<>>
    /\ clock = 0
    /\ results = NoResults
    /\ IdleService

SpecNames == InitNames /\ [][NextSynth]_vars

(***************************************************************************)
(* Analyses of warehouses that hold tables of the domain's own template,    *)
(* under the template's names and with the template's columns.              *)
(***************************************************************************)
\* a template table as a warehouse table
AsUserTable(std_table) ==
    [name |-> std_table.name,
     columns |-> [k \in DOMAIN std_table.columns |-> [name |-> std_table.columns[k].name, type |-> "INT"]],
     primary_keys |-> {}, foreign_keys |-> <<>>]

\* the warehouses of at most MaxTables tables of the template of a domain
CanonicalWarehouses(d) ==
    LET standard_schema == get_standard_schema_for_domain(d)
        as_user(tables) == [k \in DOMAIN tables |-> AsUserTable(tables[k])]
    IN  {[fact_tables |-> Pick(as_user(standard_schema.fact_tables), f, 1),
          dimension_tables |-> Pick(as_user(standard_schema.dimension_tables), dims, 1)] :
            <<f, dims>> \in {p \in (SUBSET DOMAIN standard_schema.fact_tables)
                                     \X (SUBSET DOMAIN standard_schema.dimension_tables) :
                                Cardinality(p[1]) + Cardinality(p[2]) <= MaxTables}}

InitCanonical ==
    /\ domain \in TemplateDomains
    /\ warehouse_schema \in CanonicalWarehouses(domain)
    /\ pc = "given"
    /\ sql_content = ""
    /\ schema_details = <<>>
    /\ missing_tables = <<>>
    /\ missing_columns = <<>>
    /\ original_schema = <<>>
    /\ ai_enhanced_schema = <<>>
    /\ clock = 0
    /\ results = NoResults
    /\ IdleService

SpecCanonical == InitCanonical /\ [][NextAnalyse]_vars


(***************************************************************************)
(* Properties of the evaluation engine                                     *)
(***************************************************************************)
\* the six sub-scores an evaluation reports, in the order SSA, SCS, DWBPC, SQI, RIM, DAS
ReportedScores(e) ==
    <<e.algorithm_scores.structural_similarity_analysis.score,
      e.algorithm_scores.semantic_coherence_scoring.score,
      e.algorithm_scores.dw_best_practices_compliance.score,
      e.algorithm_scores.schema_quality_index.score,
      e.algorithm_scores.relationship_integrity_metric.score,
      e.algorithm_scores.domain_alignment_score.score>>

ReportedWeights(e) ==
    <<e.algorithm_scores.structural_similarity_analysis.weight,
      e.algorithm_scores.semantic_coherence_scoring.weight,
      e.algorithm_scores.dw_best_practices_compliance.weight,
      e.algorithm_scores.schema_quality_index.weight,
      e.algorithm_scores.relationship_integrity_metric.weight,
      e.algorithm_scores.domain_alignment_score.weight>>

InRange(x) == RLe(RInt(0), x) /\ RLe(x, RInt(100))

\* C1: whenever an evaluation has been produced, each of the six sub-scores
\* and the overall score reported for the warehouse candidate and for the
\* ai_enhanced candidate lies in [0, 100], whatever the candidate (the empty
\* schema included), the reference and the domain.
C1_ScoresInRange ==
    pc = "done" =>
        \A e \in {results.warehouse_schema_evaluation, results.ai_enhanced_schema_evaluation} :
            /\ InRange(e.overall_score)
            /\ \A i \in 1..6 : InRange(ReportedScores(e)[i])

\* an evaluation of the empty schema under both labels
C1_Witness ==
    /\ pc = "done"
    /\ warehouse_schema = <<>>
    /\ ai_enhanced_schema = <<>>
    /\ original_schema # <<>>

\* the weighted sum the contract states, over six sub-scores
ContractOverall(sc) ==
    round2(RSum(<<RMul(Rat(20, 100), sc.structural),
                  RMul(Rat(15, 100), sc.semantic),
                  RMul(Rat(25, 100), sc.best_practices),
                  RMul(Rat(20, 100), sc.quality),
                  RMul(Rat(15, 100), sc.relationships),
                  RMul(Rat(5, 100), sc.domain_alignment)>>))

ContractWeights == <<Rat(20, 100), Rat(15, 100), Rat(25, 100), Rat(20, 100), Rat(15, 100), Rat(5, 100)>>

\* C2: the overall score of each evaluated candidate is
\* 0.20 SSA + 0.15 SCS + 0.25 DWBPC + 0.20 SQI + 0.15 RIM + 0.05 DAS over that
\* candidate's own six final sub-scores, rounded to two decimals; the six
\* weights reported are these constants and they sum to exactly 1.
C2_WeightedSum ==
    pc = "done" =>
        /\ results.warehouse_schema_evaluation.overall_score =
              ContractOverall(adjusted_scores(raw_scores(warehouse_schema, original_schema, domain), "warehouse"))
        /\ results.ai_enhanced_schema_evaluation.overall_score =
              ContractOverall(adjusted_scores(raw_scores(ai_enhanced_schema, original_schema, domain), "ai_enhanced"))
        /\ ReportedWeights(results.warehouse_schema_evaluation) = ContractWeights
        /\ ReportedWeights(results.ai_enhanced_schema_evaluation) = ContractWeights
        /\ RSum(ReportedWeights(results.warehouse_schema_evaluation)) = RInt(1)

\* an evaluation whose candidates have sub-scores that differ from one
\* another, so that the weights decide the overall score
C2_Witness ==
    /\ pc = "done"
    /\ warehouse_schema # <<>>
    /\ Cardinality(Range(ReportedScores(results.warehouse_schema_evaluation))) = 6
    /\ Cardinality(Range(ReportedScores(results.ai_enhanced_schema_evaluation))) = 6

\* C3: a schema evaluated as the warehouse candidate and the same schema
\* evaluated as the ai_enhanced candidate get the same six sub-scores and the
\* same overall score: the scores do not depend on the label.
C3_LabelIndependent ==
    (pc = "done" /\ warehouse_schema = ai_enhanced_schema) =>
        /\ ReportedScores(results.warehouse_schema_evaluation) =
              ReportedScores(results.ai_enhanced_schema_evaluation)
        /\ results.warehouse_schema_evaluation.overall_score =
              results.ai_enhanced_schema_evaluation.overall_score

\* C4: the recommended schema is the one with the strictly higher overall
\* score, reported with that score; on an exact tie the warehouse schema (the
\* first listed) is recommended and the reason says that the scores tied.
C4_BestOrFirstOnTie ==
    pc = "done" =>
        LET warehouse_score == results.warehouse_schema_evaluation.overall_score
            ai_enhanced_score == results.ai_enhanced_schema_evaluation.overall_score
            best == results.best_schema_recommendation
        IN  /\ RGt(warehouse_score, ai_enhanced_score) =>
                  best.schema_type = "warehouse" /\ best.score = warehouse_score
            /\ RGt(ai_enhanced_score, warehouse_score) =>
                  best.schema_type = "ai_enhanced" /\ best.score = ai_enhanced_score
            /\ warehouse_score = ai_enhanced_score =>
                  /\ best.schema_type = "warehouse"
                  /\ best.score = warehouse_score
                  /\ containsAny(lower(best.reason), <<"tie", "equal">>)

(***************************************************************************)
(* Properties of the warehouse synthesizer and of the gap analysis          *)
(***************************************************************************)
\* the names of a sequence of tables
TableNames(tables) == {tables[i].name : i \in DOMAIN tables}

\* the distinct targets of the outgoing foreign keys of a source table, column
\* level and table level together, by canonical lower-cased name
DistinctTargets(table_info) ==
    {lower(fk.references.table) : fk \in Range(parse_columns_and_constraints(table_info).foreign_keys)}

\* C5: fan-out rule.  Once the warehouse is generated, every table of the
\* source schema is a fact table if and only if its outgoing foreign keys
\* have at least two distinct targets by lower-cased name, and a dimension
\* table otherwise.
C5_FanOutRule ==
    pc \in {"generated", "analysed"} =>
        \A i \in DOMAIN schema_details :
            /\ schema_details[i].name \in TableNames(warehouse_schema.fact_tables)
                  <=> Cardinality(DistinctTargets(schema_details[i])) >= 2
            /\ schema_details[i].name \in TableNames(warehouse_schema.dimension_tables)
                  <=> Cardinality(DistinctTargets(schema_details[i])) < 2

\* C6: totality of classification.  Once the warehouse is generated, its fact
\* tables and its dimension tables have no name in common, every table is
\* listed once, and together they are exactly the tables of the source schema.
C6_TotalClassification ==
    pc \in {"generated", "analysed"} =>
        /\ TableNames(warehouse_schema.fact_tables) \cap TableNames(warehouse_schema.dimension_tables) = {}
        /\ TableNames(warehouse_schema.fact_tables) \cup TableNames(warehouse_schema.dimension_tables)
              = TableNames(schema_details)
        /\ Len(warehouse_schema.fact_tables) + Len(warehouse_schema.dimension_tables) = Len(schema_details)

\* a generated warehouse with a fact table and a dimension table
C6_Witness ==
    /\ pc = "generated"
    /\ warehouse_schema.fact_tables # <<>>
    /\ warehouse_schema.dimension_tables # <<>>

\* the synonym list of a canonical table: empty when it has none
Synonyms(canonical) ==
    UNION {Range(TABLE_VARIATIONS[e].variations) :
              e \in {x \in DOMAIN TABLE_VARIATIONS : TABLE_VARIATIONS[x].std = canonical}}

\* the tables of the warehouse that a canonical table can be mapped to
MappedTo(canonical) ==
    {u \in Range(warehouse_schema.fact_tables) \cup Range(warehouse_schema.dimension_tables) :
        lower(u.name) \in Synonyms(canonical)}

\* the lower-cased column names of a table
ColumnNames(t) == {lower(t.columns[c].name) : c \in DOMAIN t.columns}

\* the canonical tables of the template of the current domain
TemplateTables ==
    get_standard_schema_for_domain(domain).fact_tables \o get_standard_schema_for_domain(domain).dimension_tables

\* C9: gap analysis result.  After an analysis for a domain with a template,
\* a canonical table with a user table among its synonyms is not a missing
\* table and its missing columns are the template's column names minus the
\* mapped user table's, recorded only when there are some; a canonical table
\* without such a user table is a missing table and has no missing columns
\* entry.
C9_GapAnalysis ==
    (pc \in {"generated", "analysed"} /\ get_standard_schema_for_domain(domain) # NoStandardSchema) =>
        \A k \in DOMAIN TemplateTables :
            IF MappedTo(TemplateTables[k].name) # {}
            THEN /\ TemplateTables[k].name \notin Range(missing_tables)
                 /\ \E u \in MappedTo(TemplateTables[k].name) :
                       IF ColumnNames(TemplateTables[k]) \ ColumnNames(u) = {}
                       THEN TemplateTables[k].name \notin DOMAIN missing_columns
                       ELSE /\ TemplateTables[k].name \in DOMAIN missing_columns
                            /\ missing_columns[TemplateTables[k].name]
                                  = ColumnNames(TemplateTables[k]) \ ColumnNames(u)
            ELSE /\ TemplateTables[k].name \in Range(missing_tables)
                 /\ TemplateTables[k].name \notin DOMAIN missing_columns

\* an analysis that finds a mapped table lacking columns and a missing table
C9_Witness ==
    /\ pc = "analysed"
    /\ get_standard_schema_for_domain(domain) # NoStandardSchema
    /\ missing_tables # <<>>
    /\ \E k \in DOMAIN TemplateTables :
          /\ MappedTo(TemplateTables[k].name) # {}
          /\ TemplateTables[k].name \in DOMAIN missing_columns

\* C10: gap-analysis purity.  A step of enhance_schema_with_domain, for a
\* domain with or without a template, leaves the warehouse it analyses (its
\* fact and dimension tables, their names and their columns) as it was.
C10_AnalysisIsPure ==
    [][pc' = "analysed" => warehouse_schema' = warehouse_schema]_vars

\* an analysis for a domain with a template has run, on a warehouse that
\* lacks some of the template's tables
C10_Witness ==
    /\ pc = "analysed"
    /\ warehouse_schema # NoWarehouse
    /\ missing_tables # <<>>
    /\ Range(missing_tables) \cap TableNames(warehouse_schema.fact_tables \o warehouse_schema.dimension_tables) = {}
\* the CREATE TABLE statements found in the uploaded file
Statements == create_statements(join(words(remove_comments(sql_content)), " "))

\* the first statement that names the table
FirstStatement(table_name) ==
    Statements[Min({i \in DOMAIN Statements : lower(word_after(Statements[i], 13)) = table_name})]

\* the first column definition of the statement that names the column
FirstDefinition(statement, col_name) ==
    LET first(items) ==
            items[Min({i \in DOMAIN items :
                          /\ ~startswithAny(upper(items[i]),
                                            <<"PRIMARY KEY", "FOREIGN KEY", "CONSTRAINT", "UNIQUE", "CHECK">>)
                          /\ Len(words(items[i])) >= 2
                          /\ lower(words(items[i])[1]) = col_name})]
    IN  first(split_items(column_defs(statement)))

\* C7: the parsed schema has pairwise distinct, lower-case table names and,
\* within each table, pairwise distinct lower-case column names; of the
\* statements naming one table (whatever the case) the first one gives the
\* table, and of the definitions naming one column the first one gives the
\* column.
C7_Uniqueness ==
    pc = "parsed" =>
        /\ \A i, j \in DOMAIN schema_details :
              i # j => schema_details[i].name # schema_details[j].name
        /\ \A i \in DOMAIN schema_details :
              LET t == schema_details[i]
              IN  /\ t.name = lower(t.name)
                  /\ <<t>> = parse_statements(<<FirstStatement(t.name)>>, 1, <<>>)
                  /\ \A a, b \in DOMAIN t.columns : a # b => t.columns[a].name # t.columns[b].name
                  /\ \A a \in DOMAIN t.columns :
                        /\ t.columns[a].name = lower(t.columns[a].name)
                        /\ t.columns[a].type =
                               declared_type(FirstDefinition(FirstStatement(t.name), t.columns[a].name),
                                             words(FirstDefinition(FirstStatement(t.name), t.columns[a].name)))

\* a file with two statements for one table, the first of them with two
\* definitions of one column, parsed into a single table with the first
\* definition of the column
C7_Witness ==
    /\ pc = "parsed"
    /\ sql_content =
          "CREATE TABLE Users (id INT PRIMARY KEY, name VARCHAR(50) NOT NULL, ID BIGINT);"
          \o "\n" \o "create table USERS (email TEXT UNIQUE);"
    /\ Len(schema_details) = 1
    /\ schema_details[1].name = "users"
    /\ Len(schema_details[1].columns) = 2
    /\ schema_details[1].columns[1] = [name |-> "id", type |-> "INT", constraints |-> <<"PRIMARY KEY">>]

\* C8: a malformed CREATE TABLE statement contributes no table, and a
\* well-formed statement before or after it in the same file yields the
\* table it yields on its own.
C8_MalformedSkipped ==
    pc = "parsed" =>
        \A m \in MalformedStatements :
            /\ sql_content = m => schema_details = <<>>
            /\ \A w \in WellFormedStatements :
                  (sql_content = m \o "\n" \o w \/ sql_content = w \o "\n" \o m)
                      => schema_details = parse_sql_file(w)

\* C11: for a domain name without a template, the gap analysis of any
\* warehouse reports no missing table and no missing column.
C11_UnknownDomainEmpty ==
    (pc \in {"generated", "analysed"} /\ domain \notin TemplateDomains) =>
        missing_tables = <<>> /\ missing_columns = <<>>

\* an analysis for a domain without a template, of a warehouse with tables
C11_Witness ==
    /\ pc = "analysed"
    /\ domain = "Retail"
    /\ warehouse_schema.fact_tables # <<>>
    /\ warehouse_schema.dimension_tables # <<>>
    /\ missing_tables = <<>>

\* C12: the E-commerce analysis of a warehouse whose only table is named
\* client, with the columns id and name, takes client for customer_dimension:
\* customer_dimension is not a missing table and the missing columns are
\* email, for customer_dimension, and nothing else.
C12_ClientSynonym ==
    (/\ pc = "analysed"
     /\ domain = "E-commerce"
     /\ warehouse_schema.fact_tables = <<>>
     /\ TableNames(warehouse_schema.dimension_tables) = {"client"}
     /\ \A i \in DOMAIN warehouse_schema.dimension_tables :
           {c.name : c \in Range(warehouse_schema.dimension_tables[i].columns)} = {"id", "name"})
    => /\ "customer_dimension" \notin Range(missing_tables)
       /\ missing_columns = [n \in {"customer_dimension"} |-> {"email"}]

\* the RIM sub-score an evaluation reports
ReportedRim(e) == e.algorithm_scores.relationship_integrity_metric.score

\* C13: a candidate of two tables that reference each other is reported a
\* strictly lower RIM sub-score than the candidate that differs from it only
\* in lacking the reference back, under the warehouse label and under the
\* ai_enhanced label, whatever the letter case of the table names.
C13_CycleLowersRim ==
    pc = "done" =>
        \A n \in CycleNames :
            /\ warehouse_schema = CycleSchema(n[1], n[2], TRUE) =>
                  RLt(ReportedRim(results.warehouse_schema_evaluation),
                      ReportedRim(evaluate_single_schema(CycleSchema(n[1], n[2], FALSE),
                                                         original_schema, domain, "warehouse")))
            /\ ai_enhanced_schema = CycleSchema(n[1], n[2], TRUE) =>
                  RLt(ReportedRim(results.ai_enhanced_schema_evaluation),
                      ReportedRim(evaluate_single_schema(CycleSchema(n[1], n[2], FALSE),
                                                         original_schema, domain, "ai_enhanced")))

\* C14: when the warehouse candidate (the first listed) has no primary key
\* and no foreign key and the ai_enhanced candidate (the second) is a star
\* schema with keys and audit columns, the second has the strictly higher
\* overall score and is the recommended one, whatever the reference and the
\* domain.
C14_StarBeatsPlain ==
    (pc = "done" /\ warehouse_schema \in PlainSchemas /\ ai_enhanced_schema \in StarSchemas) =>
        /\ RGt(results.ai_enhanced_schema_evaluation.overall_score,
               results.warehouse_schema_evaluation.overall_score)
        /\ results.best_schema_recommendation.schema_type = "ai_enhanced"

\* a schema without tables, or whose tables all have no column
Degenerate(schema) == \A i \in DOMAIN schema : schema[i].columns = <<>>

\* a score that is a number: a fraction with a positive denominator
IsNumber(x) == x # IndexError /\ x[2] > 0

AllNumbers(raw) ==
    /\ IsNumber(raw.structural)
    /\ IsNumber(raw.semantic)
    /\ IsNumber(raw.best_practices)
    /\ IsNumber(raw.quality)
    /\ IsNumber(raw.relationships)
    /\ IsNumber(raw.domain_alignment)

TokenForm(schema) == \E i \in DOMAIN schema : upper_raises(schema[i])

\* the fact/dimension partition and the key column sets of an annotated
\* warehouse
KeyColumns(warehouse) ==
    [facts |-> {[name |-> t.name, pk_columns |-> t.pk_columns, fk_columns |-> t.fk_columns] :
                   t \in Range(warehouse.fact_tables)},
     dimensions |-> {[name |-> t.name, pk_columns |-> t.pk_columns, fk_columns |-> t.fk_columns] :
                        t \in Range(warehouse.dimension_tables)}]

\* C16: an upload whose columns carry their constraints as lists of tokens
\* is synthesized without an exception, and once generated its warehouse has
\* the fact/dimension partition and the pk_columns and fk_columns of the
\* warehouse generated from the same upload with each list given as one
\* combined string.
C16_FormsAgree ==
    TokenForm(schema_details) =>
        /\ pc # "raised"
        /\ pc = "generated" =>
              KeyColumns(warehouse_schema)
                  = KeyColumns(annotate_key_columns(
                                   generate_warehouse_schema(combined(schema_details), domain).warehouse_schema))

\* the tokens of a parsed column that declare a foreign key
ForeignKeyTokens(col) ==
    {k \in DOMAIN col.constraints : startswith(upper(col.constraints[k]), "FOREIGN KEY")}

\* the columns named by the table-level PRIMARY KEY (cols) clauses of a
\* parsed table, and the columns named by its FOREIGN KEY (cols) REFERENCES
\* t(cols) clauses with their targets, names in lower case
NamedPrimaryKeys(t) ==
    {lower(c) : c \in UNION {Range(split_columns(search_primary_key(t.constraints[k]).columns)) :
                                k \in {j \in DOMAIN t.constraints :
                                          /\ startswith(upper(t.constraints[j]), "PRIMARY KEY")
                                          /\ search_primary_key(t.constraints[j]).matched}}}

NamedForeignKeys(t) ==
    UNION {{<<lower(c), lower(search_foreign_key(t.constraints[k]).table)>> :
               c \in Range(split_columns(search_foreign_key(t.constraints[k]).columns))} :
              k \in {j \in DOMAIN t.constraints :
                        /\ startswith(upper(t.constraints[j]), "FOREIGN KEY")
                        /\ search_foreign_key(t.constraints[j]).matched}}

\* C17: in every parsed table, each column named in a table-level
\* PRIMARY KEY (cols) clause carries the PRIMARY KEY token, and each column
\* named in a table-level FOREIGN KEY (cols) REFERENCES t(cols) clause
\* carries a FOREIGN KEY REFERENCES t token.
C17_TableLevelFolded ==
    pc = "parsed" =>
        \A i \in DOMAIN schema_details :
            \A a \in DOMAIN schema_details[i].columns :
                LET t == schema_details[i]
                    col == schema_details[i].columns[a]
                IN  /\ col.name \in NamedPrimaryKeys(t) => "PRIMARY KEY" \in Range(col.constraints)
                    /\ \A fk \in NamedForeignKeys(t) :
                          col.name = fk[1] =>
                              \E k \in DOMAIN col.constraints :
                                  lower(col.constraints[k]) = "foreign key references " \o fk[2]

\* the definition has an inline REFERENCES <table> clause
InlineReferences(definition) ==
    \E i \in 1..Len(definition) :
        /\ boundary(definition, i)
        /\ keyword_at(definition, i, "REFERENCES")
        /\ word_after(definition, i + 10) # ""

\* C18: every parsed column whose definition has an inline REFERENCES
\* <table> clause, with or without a column list after the table, carries
\* exactly one foreign-key token, and its target is the identifier that
\* follows REFERENCES in the definition.
C18_InlineReferences ==
    pc = "parsed" =>
        \A i \in DOMAIN schema_details :
            \A a \in DOMAIN schema_details[i].columns :
                LET col == schema_details[i].columns[a]
                    definition == FirstDefinition(FirstStatement(schema_details[i].name), col.name)
                IN  InlineReferences(definition) =>
                        /\ Cardinality(ForeignKeyTokens(col)) = 1
                        /\ \A k \in ForeignKeyTokens(col) :
                              col.constraints[k] = "FOREIGN KEY REFERENCES " \o references_match(definition)

\* C19: the type stored for a parsed column is the second
\* whitespace-separated token of its definition (the parameter list written
\* directly after the type name is part of that token); text in parentheses
\* later in the definition is never the stored type.
C19_TypeIsSecondToken ==
    pc = "parsed" =>
        \A i \in DOMAIN schema_details :
            \A a \in DOMAIN schema_details[i].columns :
                LET col == schema_details[i].columns[a]
                    definition == FirstDefinition(FirstStatement(schema_details[i].name), col.name)
                IN  col.type = words(definition)[2]

\* C20: the result of evaluate_schemas is a function of (original_schema,
\* warehouse_schema, ai_enhanced_schema, domain) alone: the record returned
\* by a call equals the record returned for the same arguments by a call
\* made at any other time.
C20_Deterministic ==
    pc = "done" =>
        \A t \in 0..MaxClock :
            t # clock =>
                results = evaluate_schemas(original_schema, warehouse_schema, ai_enhanced_schema, domain, t)

\* C21: in every interleaving of the calls on the shared evaluator, the
\* evaluator keeps the weights and patterns it was constructed with, every
\* call keeps its arguments, and every call that has returned has returned
\* the record that evaluate_schemas returns for its arguments when run alone.
C21_NoInterference ==
    /\ evaluation_framework = SchemaEvaluationFramework
    /\ \A c \in DOMAIN calls :
          /\ calls[c].arguments \in ConcurrentArguments
          /\ calls[c].pc = "done" =>
                calls[c].results = evaluate_schemas(calls[c].arguments.original_schema,
                                                    calls[c].arguments.warehouse_schema,
                                                    calls[c].arguments.ai_enhanced_schema,
                                                    calls[c].arguments.domain,
                                                    calls[c].evaluation_timestamp)

\* a call that has returned its scores while another call, on other
\* arguments, is between its two evaluations
C21_Witness ==
    /\ calls # <<>>
    /\ calls[1].pc = "done"
    /\ calls[2].pc = "warehouse_evaluated"
    /\ calls[1].arguments # calls[2].arguments
    /\ calls[1].results.warehouse_schema_evaluation.overall_score
           = evaluate_single_schema(calls[1].arguments.warehouse_schema, calls[1].arguments.original_schema,
                                    calls[1].arguments.domain, "warehouse").overall_score

\* C22: in every step of a sequence of DELETE requests, a record that
\* disappears is the record named by an authenticated request of its owner
\* that is answered 204, after a 204 the named record no longer exists, a
\* request answered 401 or 404 leaves every record in place, and no record
\* appears.
C22_OnlyOwnerDeletes ==
    [][/\ \A r \in user_databases \ user_databases' :
             /\ response'.status_code = 204
             /\ response'.request.user = r.user
             /\ response'.request.schema_id = r.id
             /\ IsAuthenticated(r.user)
       /\ response'.status_code = 204 =>
             ~\E r \in user_databases' : r.id = response'.request.schema_id
       /\ response'.status_code \in {401, 404} => user_databases' = user_databases
       /\ (~IsAuthenticated(response'.request.user)) => response'.status_code = 401
       /\ user_databases' \subseteq user_databases]_vars

\* alice has deleted her record 1, and record 2, which bob owns, is still
\* stored after a DELETE of alice on it was answered 404
C22_Witness ==
    /\ response = [status_code |-> 404, request |-> [method |-> "DELETE", user |-> "alice", schema_id |-> 2]]
    /\ UserDatabase(2, "bob") \in user_databases
    /\ ~\E r \in user_databases : r.id = 1

\* the numbers of "(" and of ")" of a text are equal
Balanced(s) ==
    Cardinality({j \in 1..Len(s) : CharAt(s, j) = "("}) = Cardinality({j \in 1..Len(s) : CharAt(s, j) = ")"})

FirstToken(item) == SubSeq(item, 1, WordEnd(item, 1) - 1)

\* C25: every item of a body whose first token is an identifier other than
\* PRIMARY, FOREIGN, CONSTRAINT, UNIQUE and CHECK and that has a type token
\* gives a column of the lower-cased name in the parsed table.
C25_NoColumnLost ==
    pc = "parsed" =>
        \A k \in DOMAIN Statements :
            \A item \in Range(split_items(column_defs(Statements[k]))) :
                (/\ upper(FirstToken(item)) \notin {"PRIMARY", "FOREIGN", "CONSTRAINT", "UNIQUE", "CHECK"}
                 /\ Len(words(item)) >= 2)
                    => \E t \in Range(schema_details) :
                           /\ t.name = lower(word_after(Statements[k], 13))
                           /\ \E c \in Range(t.columns) : c.name = lower(FirstToken(item))

\* the names reachable from the names of S along at least one edge of the
\* map, found by following edges at most n more times
RECURSIVE ReachableFrom(_, _, _)
ReachableFrom(deps, S, n) ==
    LET successors == UNION {Range(deps[m]) : m \in S \cap DOMAIN deps}
    IN  IF n = 0 THEN successors
        ELSE successors \cup ReachableFrom(deps, successors, n - 1)

\* the map has a directed cycle: a name reachable from itself
HasDirectedCycle(deps) ==
    \E m \in DOMAIN deps : m \in ReachableFrom(deps, {m}, Cardinality(DOMAIN deps))

\* C24: on the dependency map built from the schema, the search returns
\* (so it terminates), and its value is 0.8 exactly when the map has a
\* directed cycle and 1.0 otherwise.
C24_CycleExactly ==
    pc = "done" =>
        results.circular_ref_score =
            IF HasDirectedCycle(build_dependencies(warehouse_schema)) THEN Rat(8, 10) ELSE RInt(1)

\* a map with the cycle A -> B -> C -> A found, and a map in which C is
\* reached along two paths and no cycle is found
C24_Witness ==
    /\ pc = "done"
    /\ \/ /\ warehouse_schema = GraphSchema({<<"A", "B">>, <<"B", "C">>, <<"C", "A">>}, FALSE)
          /\ results.circular_ref_score = Rat(8, 10)
       \/ /\ warehouse_schema = GraphSchema({<<"A", "B">>, <<"A", "C">>, <<"B", "C">>}, FALSE)
          /\ results.circular_ref_score = RInt(1)

\* the column names of a table are pairwise distinct
DistinctColumnNames(table) ==
    \A a, b \in DOMAIN table.columns : a # b => table.columns[a].name # table.columns[b].name

\* C26: when the column names of every table of the source schema are
\* pairwise distinct, so are the column names of every fact table and every
\* dimension table of the synthesized warehouse.
C26_NamesStayDistinct ==
    (/\ pc = "generated"
     /\ \A i \in DOMAIN schema_details : DistinctColumnNames(schema_details[i]))
    => /\ \A i \in DOMAIN warehouse_schema.fact_tables :
             DistinctColumnNames(warehouse_schema.fact_tables[i])
       /\ \A i \in DOMAIN warehouse_schema.dimension_tables :
             DistinctColumnNames(warehouse_schema.dimension_tables[i])

\* the names a warehouse table gives as keys: pk_columns, fk_columns,
\* primary_keys and the column of every entry of foreign_keys
KeyNames(table) ==
    table.pk_columns \cup table.fk_columns \cup table.primary_keys
        \cup {table.foreign_keys[k].column : k \in DOMAIN table.foreign_keys}

\* C27: in a synthesized and annotated warehouse, every name a table gives
\* as a primary-key or foreign-key column is the name of one of the columns
\* the table has after standardization and combining.
C27_KeysAreColumns ==
    pc = "generated" =>
        \A t \in Range(warehouse_schema.fact_tables) \cup Range(warehouse_schema.dimension_tables) :
            KeyNames(t) \subseteq {t.columns[c].name : c \in DOMAIN t.columns}

\* C28: after the analysis of a warehouse for a domain with a template, a
\* table of the template whose name is the name of a warehouse table is not
\* among the missing tables.
C28_CanonicalNameMapped ==
    (pc = "analysed" /\ domain \in TemplateDomains) =>
        \A k \in DOMAIN TemplateTables :
            TemplateTables[k].name
                    \in TableNames(warehouse_schema.fact_tables \o warehouse_schema.dimension_tables)
                => TemplateTables[k].name \notin Range(missing_tables)

\* the floors of the warehouse label, in the order SSA, SCS, DWBPC, SQI, RIM, DAS
WarehouseFloors == <<RInt(75), RInt(80), RInt(70), RInt(82), RInt(85), RInt(82)>>

\* C29: in every evaluation produced, each sub-score reported for the
\* candidate evaluated under the warehouse label is at least its floor
\* (75, 80, 70, 82, 85, 82) and the overall score reported for it is at
\* least 77.75, whatever the candidate.
C29_WarehouseFloors ==
    pc = "done" =>
        /\ \A i \in 1..6 :
              RGe(ReportedScores(results.warehouse_schema_evaluation)[i], WarehouseFloors[i])
        /\ RGe(results.warehouse_schema_evaluation.overall_score, Rat(7775, 100))

\* the empty schema evaluated under the warehouse label: the algorithms give
\* less than 78 for DWBPC and 0 for RIM, and 70 and 85 are reported
C29_Witness ==
    /\ pc = "done"
    /\ warehouse_schema = <<>>
    /\ RLt(raw_scores(warehouse_schema, original_schema, domain).best_practices, RInt(78))
    /\ raw_scores(warehouse_schema, original_schema, domain).relationships = RInt(0)
    /\ ReportedScores(results.warehouse_schema_evaluation)[3] = RInt(70)
    /\ ReportedScores(results.warehouse_schema_evaluation)[5] = RInt(85)

\* a candidate has a constraint token with the word REFERENCES and no table
\* name after it
NamesNoTable(schema) ==
    \E i \in DOMAIN schema : \E k \in DOMAIN schema[i].columns :
        \E c \in DOMAIN schema[i].columns[k].constraints :
            schema[i].columns[k].constraints[c] \in {"FOREIGN KEY REFERENCES", "REFERENCES (id)"}

\* C30: an evaluation of candidates whose constraint tokens are any strings,
\* one with the word REFERENCES and no table name after it among them,
\* returns its scores: it does not end in an exception.
C30_NeverRaises ==
    (NamesNoTable(warehouse_schema) \/ NamesNoTable(ai_enhanced_schema)) => pc # "raised"


====
